---- MODULE Spec2Model ----
(***************************************************************************)
(* ScanEat (sunilshaww/Foodscan): nutrition resolver, plate aggregation,   *)
(* meal log store, weekly summary.                                         *)
(*                                                                         *)
(* Numbers.  Python floats are IEEE-754 binary64.  A non-negative binary64 *)
(* value x below 2^20 is held here exactly as the integer x * 2^60, written *)
(* in four limbs of 20 bits, least significant first (a "Big").  Every     *)
(* float operation of the source (+, *, round) is the exact operation on   *)
(* Bigs followed by rounding to 53 significant bits, ties to even.         *)
(* Calories are integers times a portion k/4: binary64 is exact on them,   *)
(* so they are held as integer quarters.                                   *)
(***************************************************************************)
EXTENDS Integers, Naturals, Sequences, FiniteSets, TLC

\* ------------------------------------------------------------------------
\* binary64 arithmetic on non-negative values
\* ------------------------------------------------------------------------
Base == 1024 * 1024

Pow2(n) == 2 ^ n

BigZero == <<0, 0, 0, 0>>

\* exact sum of two Bigs
BigAdd(a, b) ==
  LET s1 == a[1] + b[1]
      s2 == a[2] + b[2] + (s1 \div Base)
      s3 == a[3] + b[3] + (s2 \div Base)
      s4 == a[4] + b[4] + (s3 \div Base)
  IN  <<s1 % Base, s2 % Base, s3 % Base, s4>>

\* exact product of a Big and a small natural number
BigMulSmall(a, k) ==
  LET s1 == a[1] * k
      s2 == a[2] * k + (s1 \div Base)
      s3 == a[3] * k + (s2 \div Base)
      s4 == a[4] * k + (s3 \div Base)
  IN  <<s1 % Base, s2 % Base, s3 % Base, s4>>

\* exact quotient by 4 of a Big whose two lowest bits are 0
BigShr2(a) ==
  <<(a[1] + (a[2] % 4) * Base) \div 4,
    (a[2] + (a[3] % 4) * Base) \div 4,
    (a[3] + (a[4] % 4) * Base) \div 4,
    a[4] \div 4>>

\* number of significant bits of a limb (0 for 0)
BitLenInt(x) == CHOOSE n \in 0..30 : x < Pow2(n) /\ (n = 0 \/ Pow2(n - 1) <= x)

\* number of significant bits of a Big
BitLen(a) ==
  IF a[4] # 0 THEN 60 + BitLenInt(a[4])
  ELSE IF a[3] # 0 THEN 40 + BitLenInt(a[3])
  ELSE IF a[2] # 0 THEN 20 + BitLenInt(a[2])
  ELSE BitLenInt(a[1])

\* the Big 2^p
BigPow2(p) == [j \in 1..4 |-> IF j = (p \div 20) + 1 THEN Pow2(p % 20) ELSE 0]

\* a mod 2^p
BigLowBits(a, p) ==
  [j \in 1..4 |-> IF j < (p \div 20) + 1 THEN a[j]
                  ELSE IF j = (p \div 20) + 1 THEN a[j] % Pow2(p % 20)
                  ELSE 0]

\* a - (a mod 2^p)
BigClearLow(a, p) ==
  LET low == BigLowBits(a, p)
  IN  <<a[1] - low[1], a[2] - low[2], a[3] - low[3], a[4] - low[4]>>

\* -1, 0, 1 as a < b, a = b, a > b
BigCmp(a, b) ==
  IF a[4] # b[4] THEN (IF a[4] < b[4] THEN -1 ELSE 1)
  ELSE IF a[3] # b[3] THEN (IF a[3] < b[3] THEN -1 ELSE 1)
  ELSE IF a[2] # b[2] THEN (IF a[2] < b[2] THEN -1 ELSE 1)
  ELSE IF a[1] # b[1] THEN (IF a[1] < b[1] THEN -1 ELSE 1)
  ELSE 0

BigBit(a, p) == (a[(p \div 20) + 1] \div Pow2(p % 20)) % 2

\* round an exact value (a, plus a non-zero part below the last bit of a when
\* sticky) to 53 significant bits, ties to even
RoundTo53(a, sticky) ==
  LET L == BitLen(a)
      p == L - 53
  IN  IF p <= 0 THEN a
      ELSE LET low  == BigLowBits(a, p)
               c    == BigCmp(low, BigPow2(p - 1))
               up   == \/ c = 1
                       \/ c = 0 /\ sticky
                       \/ c = 0 /\ ~sticky /\ BigBit(a, p) = 1
               kept == BigClearLow(a, p)
           IN  IF up THEN BigAdd(kept, BigPow2(p)) ELSE kept

\* the binary64 nearest to n/den (a decimal literal, or the float of a
\* decimal string), n < 2^20, den <= 100
FromRatio(n, den) ==
  LET c4 == n
      q4 == c4 \div den
      c3 == (c4 % den) * Base
      q3 == c3 \div den
      c2 == (c3 % den) * Base
      q2 == c2 \div den
      c1 == (c2 % den) * Base
      q1 == c1 \div den
  IN  RoundTo53(<<q1, q2, q3, q4>>, (c1 % den) # 0)

\* the binary64 of a number of tenths
Tenths(t) == FromRatio(t, 10)

\* x + y on floats
FAdd(x, y) == RoundTo53(BigAdd(x, y), FALSE)

\* x * (k/4) on floats, k/4 the portion
FMulQuarter(x, k) == BigShr2(RoundTo53(BigMulSmall(x, k), FALSE))

\* round(x, 1) of Python, as the number of tenths of the result: the decimal
\* with one digit nearest to the exact value of x, ties to the even digit
Round1(x) ==
  LET T    == BigMulSmall(x, 10)
      frac == <<T[1], T[2], T[3], 0>>
      c    == BigCmp(frac, BigPow2(59))
  IN  IF c = 1 \/ (c = 0 /\ T[4] % 2 = 1) THEN T[4] + 1 ELSE T[4]

\* round(q/4) of Python for an exact number of quarters: ties to even
RoundQuarters(q) ==
  LET f == q \div 4
      r == q % 4
  IN  IF r > 2 \/ (r = 2 /\ f % 2 = 1) THEN f + 1 ELSE f

\* ------------------------------------------------------------------------
\* food names: a Python str is the sequence of its characters
\* ------------------------------------------------------------------------
pizza == <<"p", "i", "z", "z", "a">>
burger == <<"b", "u", "r", "g", "e", "r">>
idli == <<"i", "d", "l", "i">>
dosa == <<"d", "o", "s", "a">>
biryani == <<"b", "i", "r", "y", "a", "n", "i">>
paneer_butter_masala ==
  <<"p", "a", "n", "e", "e", "r", " ", "b", "u", "t", "t", "e", "r", " ",
    "m", "a", "s", "a", "l", "a">>
salad == <<"s", "a", "l", "a", "d">>
rice == <<"r", "i", "c", "e">>
roti == <<"r", "o", "t", "i">>
sushi == <<"s", "u", "s", "h", "i">>
unknown == <<"u", "n", "k", "n", "o", "w", "n">>
butter_chicken == <<"b", "u", "t", "t", "e", "r", " ", "c", "h", "i", "c", "k", "e", "n">>

\* macros are written in tenths of a gram: 0.4 is 4, 12 is 120; the float of
\* a field is Tenths(field).  The vitamins and minerals of a record are
\* display strings that no operation reads; they are left out.
LOCAL_NUTRITION_DB == <<
    [key |-> pizza,
     rec |-> [calories |-> 285, protein |-> 120, carbs |-> 360, fat |-> 100, fiber |-> 20]],
    [key |-> burger,
     rec |-> [calories |-> 295, protein |-> 170, carbs |-> 300, fat |-> 130, fiber |-> 10]],
    [key |-> idli,
     rec |-> [calories |-> 60, protein |-> 20, carbs |-> 120, fat |-> 4, fiber |-> 6]],
    [key |-> dosa,
     rec |-> [calories |-> 168, protein |-> 40, carbs |-> 270, fat |-> 45, fiber |-> 15]],
    [key |-> biryani,
     rec |-> [calories |-> 350, protein |-> 120, carbs |-> 450, fat |-> 120, fiber |-> 25]],
    [key |-> paneer_butter_masala,
     rec |-> [calories |-> 400, protein |-> 150, carbs |-> 200, fat |-> 280, fiber |-> 20]],
    [key |-> salad,
     rec |-> [calories |-> 80, protein |-> 20, carbs |-> 120, fat |-> 30, fiber |-> 30]],
    [key |-> rice,
     rec |-> [calories |-> 200, protein |-> 40, carbs |-> 440, fat |-> 4, fiber |-> 6]],
    [key |-> roti,
     rec |-> [calories |-> 110, protein |-> 30, carbs |-> 200, fat |-> 20, fiber |-> 20]] >>

\* Python's None
None == [none |-> TRUE]

UpperCase == <<"A", "B", "C", "D", "E", "F", "G", "H", "I", "J", "K", "L", "M",
               "N", "O", "P", "Q", "R", "S", "T", "U", "V", "W", "X", "Y", "Z">>
LowerCase == <<"a", "b", "c", "d", "e", "f", "g", "h", "i", "j", "k", "l", "m",
               "n", "o", "p", "q", "r", "s", "t", "u", "v", "w", "x", "y", "z">>
WhiteSpace == {" ", "\t", "\n"}

\* str.lower()
Lower(s) ==
  [i \in 1..Len(s) |->
     IF \E j \in 1..Len(UpperCase) : UpperCase[j] = s[i]
     THEN LowerCase[CHOOSE j \in 1..Len(UpperCase) : UpperCase[j] = s[i]]
     ELSE s[i]]

\* str.strip()
Strip(s) ==
  LET keep == {i \in 1..Len(s) : s[i] \notin WhiteSpace}
  IN  IF keep = {} THEN <<>>
      ELSE LET first == CHOOSE i \in keep : \A j \in keep : i <= j
               last  == CHOOSE i \in keep : \A j \in keep : j <= i
           IN  SubSeq(s, first, last)

\* the str operator "a in b"
IsSubstring(a, b) ==
  \E i \in 0..(Len(b) - Len(a)) : SubSeq(b, i + 1, i + Len(a)) = a

_normalize(food_name) == Lower(Strip(food_name))

\* a lookup that forgets the "key in k" direction of the scan
LookupKeyInNameOnly(food_name) ==
  LET key   == _normalize(food_name)
      exact == {i \in 1..Len(LOCAL_NUTRITION_DB) : LOCAL_NUTRITION_DB[i].key = key}
      fuzzy == {i \in 1..Len(LOCAL_NUTRITION_DB) :
                  IsSubstring(LOCAL_NUTRITION_DB[i].key, key)}
  IN  IF exact # {} THEN LOCAL_NUTRITION_DB[CHOOSE i \in exact : TRUE].rec
      ELSE IF fuzzy # {}
           THEN LOCAL_NUTRITION_DB[CHOOSE i \in fuzzy : \A j \in fuzzy : i <= j].rec
           ELSE None

\* _lookup_local: the exact key first, else the first key in table order that
\* contains the name or is contained in it
_lookup_local(food_name) ==
  LET key   == _normalize(food_name)
      exact == {i \in 1..Len(LOCAL_NUTRITION_DB) : LOCAL_NUTRITION_DB[i].key = key}
      fuzzy == {i \in 1..Len(LOCAL_NUTRITION_DB) :
                  \/ IsSubstring(key, LOCAL_NUTRITION_DB[i].key)
                  \/ IsSubstring(LOCAL_NUTRITION_DB[i].key, key)}
  IN  IF exact # {} THEN LOCAL_NUTRITION_DB[CHOOSE i \in exact : TRUE].rec
      ELSE IF fuzzy # {}
           THEN LOCAL_NUTRITION_DB[CHOOSE i \in fuzzy : \A j \in fuzzy : i <= j].rec
           ELSE None

\* ------------------------------------------------------------------------
\* the Open Food Facts collaborator and the resolver
\* ------------------------------------------------------------------------
\* What one request to the search endpoint comes to.  A product carries its
\* nutriments per 100 g in hundredths (6.15 is 615); Absent is a missing key.
Absent == 0 - 1
RaisingKinds == {"connection_error", "timeout", "http_error", "bad_json", "bad_value"}
NoProducts == [kind |-> "no_products"]
ConnectionError == [kind |-> "connection_error"]

Failure(kind) == [kind |-> kind]
Product(kcal, proteins, carbohydrates, fat, fiber) ==
  [kind |-> "product",
   nutriments |-> [kcal |-> kcal, proteins |-> proteins,
                   carbohydrates |-> carbohydrates, fat |-> fat, fiber |-> fiber]]

\* get_nutrient: float(nutriments.get(key + "_100g", 0.0))
get_nutrient(h) == IF h = Absent THEN BigZero ELSE FromRatio(h, 100)

\* int(x) of a non-negative float: the integer part
IntOf(x) == x[4]

\* the result of a call: the value returned, whether an exception left the
\* function, and the number of HTTP requests issued
Returned(v, n) == [value |-> v, raised |-> FALSE, requests |-> n]

\* a fetch whose except clause names requests.RequestException only
FetchNarrowExcept(food_name, o) ==
  IF o.kind \in {"bad_json", "bad_value"}
  THEN [value |-> None, raised |-> TRUE, requests |-> 1]
  ELSE Returned(None, 1)

\* _fetch_from_openfoodfacts: one GET with timeout=10; requests.get,
\* raise_for_status, resp.json and float() raise inside the try, and the
\* except Exception clause returns None
_fetch_from_openfoodfacts(food_name, o) ==
  IF o.kind \in RaisingKinds THEN Returned(None, 1)
  ELSE IF o.kind = "no_products" THEN Returned(None, 1)
  ELSE Returned([calories |-> IntOf(get_nutrient(o.nutriments.kcal)),
                 protein  |-> Round1(get_nutrient(o.nutriments.proteins)),
                 carbs    |-> Round1(get_nutrient(o.nutriments.carbohydrates)),
                 fat      |-> Round1(get_nutrient(o.nutriments.fat)),
                 fiber    |-> Round1(get_nutrient(o.nutriments.fiber))], 1)

\* "if api:  return api" and the final "return None"
FromApi(api) ==
  IF api.raised THEN api
  ELSE IF api.value # None THEN api
  ELSE Returned(None, api.requests)

\* "if local:  return local", else the collaborator
FromLocal(local, food_name, o) ==
  IF local # None THEN Returned(local, 0)
  ELSE FromApi(_fetch_from_openfoodfacts(food_name, o))

\* a resolver that asks the collaborator first and the table after it
ResolveRemoteFirst(food_name, o) ==
  LET api == _fetch_from_openfoodfacts(food_name, o)
  IN  IF api.value # None THEN api
      ELSE Returned(_lookup_local(food_name), api.requests)

\* get_nutrition_info: the local table first, the collaborator only after it
get_nutrition_info(food_name, o) == FromLocal(_lookup_local(food_name), food_name, o)

\* ------------------------------------------------------------------------
\* plate aggregation (app.py, the "if selected_items:" block)
\* ------------------------------------------------------------------------
\* the body of the loop for one item, n = get_nutrition_info(item):
\* "if not n: missing_items.append(item); continue", else the five "+="
Accumulate(c, n) ==
  IF n = None THEN c
  ELSE [calories |-> c.calories + n.calories,
        protein  |-> FAdd(c.protein, Tenths(n.protein)),
        carbs    |-> FAdd(c.carbs, Tenths(n.carbs)),
        fat      |-> FAdd(c.fat, Tenths(n.fat)),
        fiber    |-> FAdd(c.fiber, Tenths(n.fiber))]

Missing(missing_items, item, n) ==
  IF n = None THEN Append(missing_items, item) ELSE missing_items

\* a loop that leaves at the first unresolved item (break for continue)
RECURSIVE AggLoopBreak(_, _, _, _, _, _)
AggLoopBreak(selected_items, i, c, missing_items, net, used) ==
  IF i > Len(selected_items)
  THEN [c |-> c, missing_items |-> missing_items, requests |-> used]
  ELSE LET r == get_nutrition_info(selected_items[i], net[used + 1])
       IN  IF r.value = None
           THEN [c |-> c, missing_items |-> Append(missing_items, selected_items[i]),
                 requests |-> used + r.requests]
           ELSE AggLoopBreak(selected_items, i + 1, Accumulate(c, r.value),
                             missing_items, net, used + r.requests)

\* "for item in selected_items".  net[i] is what the i-th HTTP request of the
\* run comes to; used counts the requests issued so far.
\* calories is a Python int until "*= portion"; c.calories is that int here
\* and the number of quarters after scaling.
RECURSIVE AggLoop(_, _, _, _, _, _)
AggLoop(selected_items, i, c, missing_items, net, used) ==
  IF i > Len(selected_items)
  THEN [c |-> c, missing_items |-> missing_items, requests |-> used]
  ELSE LET r == get_nutrition_info(selected_items[i], net[used + 1])
       IN  AggLoop(selected_items, i + 1, Accumulate(c, r.value),
                   Missing(missing_items, selected_items[i], r.value),
                   net, used + r.requests)

\* "for k in combined_nutrition: combined_nutrition[k] *= portion"
Scaled(l, portion) ==
  [calories      |-> l.c.calories * portion,
   protein       |-> FMulQuarter(l.c.protein, portion),
   carbs         |-> FMulQuarter(l.c.carbs, portion),
   fat           |-> FMulQuarter(l.c.fat, portion),
   fiber         |-> FMulQuarter(l.c.fiber, portion),
   missing_items |-> l.missing_items,
   requests      |-> l.requests]

\* portion is the slider value in quarters: 1..8 for 0.25..2.0
combined_nutrition(selected_items, portion, net) ==
  Scaled(AggLoop(selected_items, 1,
                 [calories |-> 0, protein |-> BigZero, carbs |-> BigZero,
                  fat |-> BigZero, fiber |-> BigZero],
                 <<>>, net, 0),
         portion)

\* ------------------------------------------------------------------------
\* the Clarifai collaborator (food_recognition.py)
\* ------------------------------------------------------------------------
\* _clarifai_predict returns None (no key, or the request failed) or the list
\* of concepts, written Listed(cs); a concept is [name, value], value in
\* hundredths (0.97 is 97).
Listed(cs) == [list |-> cs]

FOOD_CONFIDENCE_THRESHOLD == 50

\* validate_food_image: the first concept as returned, not the best one
validate_food_image(concepts) ==
  IF concepts = None \/ concepts.list = <<>>
  THEN [is_food |-> FALSE, confidence |-> 0]
  ELSE [is_food |-> concepts.list[1].value >= FOOD_CONFIDENCE_THRESHOLD,
        confidence |-> concepts.list[1].value]

\* sorted(concepts, key=value, reverse=True): stable, by insertion
RECURSIVE SortByValueDesc(_)
SortByValueDesc(cs) ==
  IF cs = <<>> THEN <<>>
  ELSE LET rest == SortByValueDesc(SubSeq(cs, 1, Len(cs) - 1))
           x    == cs[Len(cs)]
           k    == Cardinality({i \in 1..Len(rest) : rest[i].value >= x.value})
       IN  SubSeq(rest, 1, k) \o <<x>> \o SubSeq(rest, k + 1, Len(rest))

\* lines 116-137: the best concept and the alternatives after it
Detected(sorted) ==
  IF sorted[1].value < FOOD_CONFIDENCE_THRESHOLD
  THEN [name |-> unknown, confidence |-> sorted[1].value, alternatives |-> <<>>]
  ELSE [name |-> sorted[1].name, confidence |-> sorted[1].value,
        alternatives |->
          LET ok == SelectSeq(SubSeq(sorted, 2, IF Len(sorted) < 6 THEN Len(sorted) ELSE 6),
                              LAMBDA c : c.name # <<>> /\ c.value >= 20)
          IN  [i \in 1..Len(ok) |-> ok[i].name]]

\* a recognition that takes the first concept as returned for the best one
RecognizeUnsorted(concepts) ==
  IF concepts = None \/ concepts.list = <<>>
  THEN [name |-> unknown, confidence |-> 0, alternatives |-> <<>>]
  ELSE Detected(concepts.list)

\* recognize_food_advanced
recognize_food_advanced(concepts) ==
  IF concepts = None \/ concepts.list = <<>>
  THEN [name |-> unknown, confidence |-> 0, alternatives |-> <<>>]
  ELSE Detected(SortByValueDesc(concepts.list))

\* ------------------------------------------------------------------------
\* state
\* ------------------------------------------------------------------------
\* log_entries  st.session_state["log_entries"]
\* today        date.today(), as a day number
\* inp          the inputs of the operation under way (widget values, what the
\*              collaborators answer)
\* out          what the operation returned or rendered
VARIABLES log_entries, today, inp, out

vars == <<log_entries, today, inp, out>>

Pending == [fn |-> "pending"]

\* ------------------------------------------------------------------------
\* the script (app.py): one run from top to bottom per action
\* ------------------------------------------------------------------------
\* A run is a function of the widget values it is given.  Under Spec the
\* widget values of a run are free: every button may evaluate to true.
\* An entry is [date, foods, calories, protein, carbs, fat, fiber, portion,
\* goal]: calories an int, the macros in tenths (each is float(round(x, 1))),
\* portion in quarters.  The "time" and "image" fields are display values no
\* operation reads back; they are left out.
Goals == {"maintain", "lose", "gain"}

\* the session under Spec: at most MaxLog entries are logged, over the days
\* 0..MaxDay, with selections of at most MaxSel candidates
MaxLog == 2
MaxDay == 1
MaxSel == 2

\* what a multiselect can return: its options without repetition, in the
\* order they were picked
Selections(options, lo, hi) ==
  UNION {{q \in [1..n -> options] : \A i, j \in 1..n : q[i] = q[j] => i = j} : n \in lo..hi}

\* a selection that keeps the entries of every day
EntriesOfAnyDay(entries, day) == SelectSeq(entries, LAMBDA e : e["date"] <= day)

\* get_today_entries
get_today_entries(entries, day) == SelectSeq(entries, LAMBDA e : e["date"] = day)

\* candidate_items = [food_name] + alternatives
candidate_items(detection) == <<detection.name>> \o detection.alternatives

Range(q) == {q[i] : i \in 1..Len(q)}

\* line 305: the warning or the success notice of the food check
validation_notice(v) ==
  IF ~v.is_food \/ v.confidence < 40 THEN "unclear" ELSE "food"

\* line 322: whether the page goes on with the detected food
recognized(detection) == ~(detection.name = unknown \/ detection.confidence < 30)

\* lines 303-328 as far as the plate selection
analyzed(v, detection) ==
  [fn |-> "analyze", is_food |-> v.is_food, validation_confidence |-> v.confidence,
   notice |-> validation_notice(v), detection |-> detection,
   stage |-> IF recognized(detection) THEN "recognized" ELSE "unrecognized"]

\* an analysis that stops at the warning
AnalyzeStopsWhenUnclear(cv, cr) ==
  IF validation_notice(validate_food_image(cv)) = "unclear"
  THEN [fn |-> "analyze", is_food |-> validate_food_image(cv).is_food,
        validation_confidence |-> validate_food_image(cv).confidence,
        notice |-> "unclear", detection |-> None, stage |-> "stopped"]
  ELSE analyzed(validate_food_image(cv), recognize_food_advanced(cr))

\* cv and cr are what _clarifai_predict answers to the two calls
analyze_food(cv, cr) == analyzed(validate_food_image(cv), recognize_food_advanced(cr))

\* values that are the combined totals whenever a selection was made, with
\* no fall-back to the main item when the totals are 0
UsedCombinedOnly(combined, main, portion) ==
  IF main = None THEN None
  ELSE IF combined # None
  THEN [calories |-> combined.calories, protein |-> combined.protein,
        carbs |-> combined.carbs, fat |-> combined.fat, fiber |-> combined.fiber]
  ELSE [calories |-> main.calories * portion,
        protein  |-> FMulQuarter(Tenths(main.protein), portion),
        carbs    |-> FMulQuarter(Tenths(main.carbs), portion),
        fat      |-> FMulQuarter(Tenths(main.fat), portion),
        fiber    |-> FMulQuarter(Tenths(main.fiber), portion)]

\* lines 469-480: used_cals .. used_fiber, the combined totals when they are
\* usable, else the main item scaled
Used(combined, main, portion) ==
  IF main = None THEN None
  ELSE IF combined # None /\ combined.calories > 0
  THEN [calories |-> combined.calories, protein |-> combined.protein,
        carbs |-> combined.carbs, fat |-> combined.fat, fiber |-> combined.fiber]
  ELSE [calories |-> main.calories * portion,
        protein  |-> FMulQuarter(Tenths(main.protein), portion),
        carbs    |-> FMulQuarter(Tenths(main.carbs), portion),
        fat      |-> FMulQuarter(Tenths(main.fat), portion),
        fiber    |-> FMulQuarter(Tenths(main.fiber), portion)]

\* line 422: main_nutrition = get_nutrition_info(food_name), after the
\* requests of the combined plate
WithMain(combined, main_nutrition, portion) ==
  [combined |-> combined, main_nutrition |-> main_nutrition,
   used |-> Used(combined, main_nutrition, portion)]

AfterCombined(combined, food_name, portion, net) ==
  WithMain(combined,
           get_nutrition_info(food_name,
             net[(IF combined = None THEN 0 ELSE combined.requests) + 1]).value,
           portion)

\* lines 368-480: the combined plate, the main item, the values used
Plate(food_name, selected_items, portion, net) ==
  AfterCombined(IF selected_items # <<>>
                THEN combined_nutrition(selected_items, portion, net)
                ELSE None,
                food_name, portion, net)

\* an add that keeps the integer part of the calories (int() without round())
EntryTruncated(day, food_name, selected_items, portion, goal, used) ==
  [date     |-> day,
   foods    |-> IF selected_items # <<>> THEN selected_items ELSE <<food_name>>,
   calories |-> used.calories \div 4,
   protein  |-> IntOf(BigMulSmall(used.protein, 10)),
   carbs    |-> IntOf(BigMulSmall(used.carbs, 10)),
   fat      |-> IntOf(BigMulSmall(used.fat, 10)),
   fiber    |-> IntOf(BigMulSmall(used.fiber, 10)),
   portion  |-> portion,
   goal     |-> goal]

\* lines 503-515: the entry of "Add this meal to today's log"
entry(day, food_name, selected_items, portion, goal, used) ==
  [date     |-> day,
   foods    |-> IF selected_items # <<>> THEN selected_items ELSE <<food_name>>,
   calories |-> RoundQuarters(used.calories),
   protein  |-> Round1(used.protein),
   carbs    |-> Round1(used.carbs),
   fat      |-> Round1(used.fat),
   fiber    |-> Round1(used.fiber),
   portion  |-> portion,
   goal     |-> goal]

\* a store that puts the new entry first
StoreInsertFirst(entries, e) == <<e>> \o entries

\* st.session_state["log_entries"].append(entry)
StoreAppend(entries, e) == Append(entries, e)

\* what a run that touched no log renders
Rendered(page, stage, validation) ==
  [fn |-> "run", page |-> page, stage |-> stage, validation |-> validation,
   added |-> FALSE]

\* what the session under Spec is given: the answers of the classifier, two
\* of the goals, one portion, and a network that is down (every request to Open Food Facts
\* fails), so that "sushi" is an item without nutrition data
SessionPredictions ==
  { None,
    Listed(<<[name |-> burger, value |-> 90], [name |-> sushi, value |-> 45]>>),
    Listed(<<[name |-> sushi, value |-> 80], [name |-> burger, value |-> 35]>>) }
SessionFoods == {burger, sushi}
SessionGoals == {"maintain", "lose"}
SessionPortions == {1}
SessionNet == [i \in 1..(MaxSel + 1) |-> ConnectionError]

\* Plate over the inputs of the session, tabulated
SessionPlates ==
  {[food_name |-> n, selected_items |-> s, portion |-> q,
    plate |-> Plate(n, s, q, SessionNet)] :
     n \in SessionFoods, s \in Selections(SessionFoods, 0, MaxSel), q \in SessionPortions}

SessionPlate(food_name, selected_items, portion) ==
  (CHOOSE r \in SessionPlates : /\ r.food_name = food_name
                                /\ r.selected_items = selected_items
                                /\ r.portion = portion).plate

\* lines 329-517, from the detected food on: the plate pl of the selection,
\* and the button "Add this meal to today's log" with the value add
PlateStep(goal, detection, validation, selected_items, portion, add, pl) ==
  IF pl.main_nutrition = None
  THEN /\ out' = [fn |-> "run", page |-> "Scan Food", stage |-> "no_main_nutrition",
                  validation |-> validation, added |-> FALSE, detection |-> detection]
       /\ UNCHANGED log_entries
  ELSE IF ~add
  THEN /\ out' = [fn |-> "run", page |-> "Scan Food", stage |-> "shown",
                  validation |-> validation, added |-> FALSE, detection |-> detection]
       /\ UNCHANGED log_entries
  ELSE /\ Len(log_entries) < MaxLog
       /\ log_entries' =
            StoreAppend(log_entries,
              entry(today, detection.name, selected_items, portion, goal, pl.used))
       /\ out' = [fn |-> "run", page |-> "Scan Food",
                  stage |-> "added", validation |-> validation,
                  added |-> TRUE,
                  food_name |-> detection.name,
                  selected_items |-> selected_items,
                  portion |-> portion,
                  combined |-> pl.combined,
                  main_nutrition |-> pl.main_nutrition,
                  used |-> pl.used]

\* page "Scan Food": lines 262-528, one run of the script
ScanFood ==
  \E goal \in SessionGoals, image \in BOOLEAN, analyze \in BOOLEAN :
    /\ inp' = [page |-> "Scan Food", goal |-> goal]
    /\ UNCHANGED today
    /\ IF ~image
       THEN out' = Rendered("Scan Food", "no_image", "none") /\ UNCHANGED log_entries
       ELSE IF ~analyze
       THEN out' = Rendered("Scan Food", "idle", "none") /\ UNCHANGED log_entries
       ELSE \E cv \in SessionPredictions, cr \in SessionPredictions :
         LET v == validate_food_image(cv)
             detection == recognize_food_advanced(cr)
             validation == validation_notice(v)
         IN  IF ~recognized(detection)
             THEN /\ out' = Rendered("Scan Food", "unrecognized", validation)
                  /\ UNCHANGED log_entries
             ELSE \E selected_items \in
                       Selections(Range(candidate_items(detection)), 0, MaxSel),
                     portion \in SessionPortions, add \in BOOLEAN :
               \E pl \in {SessionPlate(detection.name, selected_items, portion)} :
                   PlateStep(goal, detection, validation, selected_items, portion, add, pl)

\* sum(e[f] for e in entries) over float fields: 0 + x1 + x2 + ...
RECURSIVE SumTenths(_, _)
SumTenths(entries, f) ==
  IF entries = <<>> THEN BigZero
  ELSE FAdd(SumTenths(SubSeq(entries, 1, Len(entries) - 1), f),
            Tenths(entries[Len(entries)][f]))

RECURSIVE SumInts(_, _)
SumInts(entries, f) ==
  IF entries = <<>> THEN 0
  ELSE SumInts(SubSeq(entries, 1, Len(entries) - 1), f) + entries[Len(entries)][f]

\* ", ".join(foods)
RECURSIVE Join(_)
Join(foods) ==
  IF foods = <<>> THEN <<>>
  ELSE IF Len(foods) = 1 THEN foods[1]
  ELSE Join(SubSeq(foods, 1, Len(foods) - 1)) \o <<",", " ">> \o foods[Len(foods)]

\* page "Today's Log & History": today's entries, their totals, and the rows
\* of the table that is exported as CSV
TodaysLogRun(goal) ==
  /\ inp' = [page |-> "Today's Log & History", goal |-> goal]
  /\ out' = [fn |-> "run", page |-> "Today's Log & History", added |-> FALSE,
             today_entries |-> get_today_entries(log_entries, today),
             total_cals    |-> SumInts(get_today_entries(log_entries, today), "calories"),
             total_protein |-> SumTenths(get_today_entries(log_entries, today), "protein"),
             total_carbs   |-> SumTenths(get_today_entries(log_entries, today), "carbs"),
             total_fat     |-> SumTenths(get_today_entries(log_entries, today), "fat"),
             table_data    |-> [i \in 1..Len(log_entries) |->
                                  [log_entries[i] EXCEPT !.foods = Join(@)]]]
  /\ UNCHANGED <<log_entries, today>>

TodaysLog == \E goal \in SessionGoals : TodaysLogRun(goal)

\* food_counts: (name, count) in the order the names first occur
RECURSIVE CountFoods(_, _)
CountFoods(foods, counts) ==
  IF foods = <<>> THEN counts
  ELSE LET f    == foods[1]
           at   == {i \in 1..Len(counts) : counts[i].name = f}
           next == IF at = {} THEN Append(counts, [name |-> f, count |-> 1])
                   ELSE [counts EXCEPT ![CHOOSE i \in at : TRUE].count = @ + 1]
       IN  CountFoods(SubSeq(foods, 2, Len(foods)), next)

RECURSIVE AllFoods(_)
AllFoods(entries) ==
  IF entries = <<>> THEN <<>>
  ELSE entries[1].foods \o AllFoods(SubSeq(entries, 2, Len(entries)))

food_counts(entries) == CountFoods(AllFoods(entries), <<>>)

\* a sort by count that puts the later of two equal counts first
RECURSIVE SortByCountUnstable(_)
SortByCountUnstable(cs) ==
  IF cs = <<>> THEN <<>>
  ELSE LET rest == SortByCountUnstable(SubSeq(cs, 1, Len(cs) - 1))
           x    == cs[Len(cs)]
           k    == Cardinality({i \in 1..Len(rest) : rest[i].count > x.count})
       IN  SubSeq(rest, 1, k) \o <<x>> \o SubSeq(rest, k + 1, Len(rest))

\* sorted(food_counts.items(), key=lambda x: x[1], reverse=True): stable
RECURSIVE SortByCountDesc(_)
SortByCountDesc(cs) ==
  IF cs = <<>> THEN <<>>
  ELSE LET rest == SortByCountDesc(SubSeq(cs, 1, Len(cs) - 1))
           x    == cs[Len(cs)]
           k    == Cardinality({i \in 1..Len(rest) : rest[i].count >= x.count})
       IN  SubSeq(rest, 1, k) \o <<x>> \o SubSeq(rest, k + 1, Len(rest))

\* top_foods[:5]
top_foods(entries) ==
  LET sorted == SortByCountDesc(food_counts(entries))
  IN  SubSeq(sorted, 1, IF Len(sorted) < 5 THEN Len(sorted) ELSE 5)

\* a chart that lists only the days that have entries
WeeklyRenderSparse(entries, day) ==
  IF entries = <<>> THEN [info |-> "no_logs"]
  ELSE LET start_dt == day - 6
           filtered == SelectSeq(entries, LAMBDA e : start_dt <= e["date"] /\ e["date"] <= day)
           days     == {e["date"] : e \in Range(filtered)}
           ordered  == SelectSeq([i \in 1..7 |-> start_dt + (i - 1)], LAMBDA d : d \in days)
       IN  IF filtered = <<>> THEN [info |-> "no_recent"]
           ELSE [info |-> "chart",
                 dates_list |-> ordered,
                 cals_list  |-> [i \in 1..Len(ordered) |->
                    SumInts(SelectSeq(filtered, LAMBDA e : e["date"] = ordered[i]), "calories")],
                 top_foods  |-> top_foods(filtered)]

\* lines 610-664: the weekly page.  A date is its day number; isoformat and
\* fromisoformat are inverse to each other on dates.
WeeklyRender(entries, day) ==
  IF entries = <<>> THEN [info |-> "no_logs"]
  ELSE LET start_dt == day - 6
           filtered == SelectSeq(entries, LAMBDA e : start_dt <= e["date"] /\ e["date"] <= day)
           dates_list == [i \in 1..7 |-> start_dt + (i - 1)]
       IN  IF filtered = <<>> THEN [info |-> "no_recent"]
           ELSE [info |-> "chart",
                 dates_list |-> dates_list,
                 cals_list  |-> [i \in 1..7 |->
                    SumInts(SelectSeq(filtered, LAMBDA e : e["date"] = dates_list[i]), "calories")],
                 top_foods  |-> top_foods(filtered)]

\* page "Weekly Summary"
WeeklyRun(goal) ==
  /\ inp' = [page |-> "Weekly Summary", goal |-> goal]
  /\ out' = [fn |-> "run", page |-> "Weekly Summary", added |-> FALSE,
             weekly |-> WeeklyRender(log_entries, today)]
  /\ UNCHANGED <<log_entries, today>>

WeeklySummary == \E goal \in SessionGoals : WeeklyRun(goal)

\* the float of a small natural number; x > y, x < y on floats
FloatOf(n) == <<0, 0, 0, n>>
FLess(x, y) == BigCmp(x, y) = 0 - 1

\* format(x, ".0f"): the integer nearest to the exact value, ties to even
Round0(x) ==
  LET c == BigCmp(<<x[1], x[2], x[3], 0>>, BigPow2(59))
  IN  IF c = 1 \/ (c = 0 /\ x[4] % 2 = 1) THEN x[4] + 1 ELSE x[4]

\* lines 71-76: the target range of the goal
target_range(goal) ==
  IF goal = "lose" THEN [min |-> 1400, max |-> 1900]
  ELSE IF goal = "gain" THEN [min |-> 2200, max |-> 2800]
  ELSE [min |-> 1800, max |-> 2300]

\* a calorie analysis that counts the two ends of the range as outside
CalorieBandOpen(total_cals, target) ==
  IF total_cals <= target.min THEN "below"
  ELSE IF total_cals >= target.max THEN "above"
  ELSE "within"

\* lines 87, 103, 119: where the total lies
calorie_band(total_cals, target) ==
  IF total_cals < target.min THEN "below"
  ELSE IF total_cals > target.max THEN "above"
  ELSE "within"

\* lines 88-134: the paragraph of the calorie analysis, by its first sentence
calorie_paragraph(band, goal) ==
  IF band = "below"
  THEN IF goal = "lose"
       THEN "You're **below** the typical calorie range for weight loss."
       ELSE IF goal = "gain"
       THEN "You're well **below** the calorie range needed for weight gain."
       ELSE "You're **under** a typical maintenance range."
  ELSE IF band = "above"
  THEN IF goal = "lose"
       THEN "You're **above** the usual calorie range for weight loss today."
       ELSE IF goal = "gain"
       THEN "You're on the **higher** side of calories, which can support weight gain, but ensure they come from quality foods, not just junk."
       ELSE "You're **above** a typical maintenance range."
  ELSE IF goal = "lose"
       THEN "Nice! Your total calories are within a reasonable range for weight loss today."
       ELSE IF goal = "gain"
       THEN "Good! Your total calories are in a decent range for weight gain."
       ELSE "You're roughly in a **maintenance** range today."

\* a protein analysis whose limits 50 and 120 belong to the outer verdicts
ProteinParagraphClosed(total_protein) ==
  IF ~FLess(FloatOf(50), total_protein)
  THEN "Protein intake looks on the **lower side**."
  ELSE IF ~FLess(total_protein, FloatOf(120))
  THEN "Protein intake is **quite high**, which is okay if you train regularly, but keep hydration up and balance with veggies."
  ELSE "Protein intake looks **okay** for a typical day."

\* lines 137-148: the paragraph of the protein analysis
protein_paragraph(total_protein) ==
  IF FLess(total_protein, FloatOf(50))
  THEN "Protein intake looks on the **lower side**."
  ELSE IF FLess(FloatOf(120), total_protein)
  THEN "Protein intake is **quite high**, which is okay if you train regularly, but keep hydration up and balance with veggies."
  ELSE "Protein intake looks **okay** for a typical day."

\* a balance check that also fires when the two sides are equal
BalanceNotStrict(total_carbs, total_fat) ==
  IF ~FLess(total_carbs, BigMulSmall(total_fat, 4)) /\ total_carbs # BigZero
  THEN <<"Your day leaned more towards **carb-heavy** meals.">>
  ELSE IF ~FLess(total_fat, total_carbs) /\ total_fat # BigZero
  THEN <<"Your day is a bit **fat-heavy**.">>
  ELSE <<>>

\* lines 151-158: the carbs and fat check; total_fat * 4 is exact in binary64
balance_paragraphs(total_carbs, total_fat) ==
  IF FLess(BigMulSmall(total_fat, 4), total_carbs)
  THEN <<"Your day leaned more towards **carb-heavy** meals.">>
  ELSE IF FLess(total_carbs, total_fat)
  THEN <<"Your day is a bit **fat-heavy**.">>
  ELSE <<>>

NoMealsMessage == "You haven't logged any meals today yet."
ClosingTip == "Tip: Try to spread your calories across the day (breakfast, lunch, dinner, 1-2 snacks) instead of having one very heavy meal."

\* lines 64-166: the paragraphs over today's entries, in the order they are
\* appended to lines
coach_lines(today_entries, goal, total_cals, total_protein, total_carbs, total_fat) ==
  << <<"summary", Len(today_entries), total_cals>>,
     <<"macros", Round0(total_protein), Round0(total_carbs), Round0(total_fat)>>,
     calorie_paragraph(calorie_band(total_cals, target_range(goal)), goal),
     protein_paragraph(total_protein) >>
  \o balance_paragraphs(total_carbs, total_fat) \o <<ClosingTip>>

CoachOver(today_entries, goal) ==
  IF today_entries = <<>> THEN <<NoMealsMessage>>
  ELSE coach_lines(today_entries, goal,
                   SumInts(today_entries, "calories"),
                   SumTenths(today_entries, "protein"),
                   SumTenths(today_entries, "carbs"),
                   SumTenths(today_entries, "fat"))

\* generate_coach_message: the paragraphs that are joined into the message
generate_coach_message(entries, day, goal) ==
  CoachOver(get_today_entries(entries, day), goal)

\* page "Smart Coach": lines 667-676
CoachRun(goal) ==
  /\ inp' = [page |-> "Smart Coach", goal |-> goal]
  /\ out' = [fn |-> "run", page |-> "Smart Coach", added |-> FALSE,
             message |-> generate_coach_message(log_entries, today, goal)]
  /\ UNCHANGED <<log_entries, today>>

SmartCoach == \E goal \in SessionGoals : CoachRun(goal)

\* midnight passes: date.today() moves on
Tick ==
  /\ today < MaxDay
  /\ today' = today + 1
  /\ out' = [fn |-> "midnight"]
  /\ UNCHANGED <<log_entries, inp>>

Init ==
  /\ log_entries = <<>>
  /\ today = 0
  /\ inp = [page |-> "Scan Food", goal |-> "maintain"]
  /\ out = Pending

Next == ScanFood \/ TodaysLog \/ WeeklySummary \/ SmartCoach \/ Tick

Spec == Init /\ [][Next]_vars

\* ------------------------------------------------------------------------
\* the resolver on its own: names and collaborator answers drawn from sets
\* ------------------------------------------------------------------------
NameInputs ==
  { pizza, burger, idli, dosa, biryani, paneer_butter_masala, salad, rice, roti,
    sushi, unknown,
    <<" ", "P", "i", "z", "z", "a", " ">>,
    <<"c", "h", "e", "e", "s", "e", " ", "p", "i", "z", "z", "a">>,
    <<"P", "A", "N", "E", "E", "R">>,
    <<"m", "a", "s", "a", "l", "a", " ", "d", "o", "s", "a">>,
    <<"f", "r", "i", "e", "d", " ", "r", "i", "c", "e">>,
    <<"r", "i", "c", "e", " ", "a", "n", "d", " ", "r", "o", "t", "i">>,
    butter_chicken,
    <<"S", "a", "l", "a", "d", "\n">>,
    <<"i">>, <<"r", "i">>, <<>>, <<" ", " ">> }

ExtOutcomes ==
  { Failure(k) : k \in RaisingKinds } \cup
  { NoProducts,
    Product(14350, 615, 2125, 45, Absent),
    Product(Absent, Absent, Absent, Absent, Absent),
    Product(9999, 1000, 35, 5, 1295) }

InitResolve ==
  /\ log_entries = <<>>
  /\ today = 0
  /\ inp \in [food_name : NameInputs, o : ExtOutcomes]
  /\ out = Pending

LookupLocal ==
  /\ out = Pending
  /\ out' = [fn |-> "_lookup_local", value |-> _lookup_local(inp.food_name)]
  /\ UNCHANGED <<log_entries, today, inp>>

Resolve ==
  /\ out = Pending
  /\ out' = [fn |-> "get_nutrition_info",
             result |-> get_nutrition_info(inp.food_name, inp.o)]
  /\ UNCHANGED <<log_entries, today, inp>>

NextResolve == LookupLocal \/ Resolve

SpecResolve == InitResolve /\ [][NextResolve]_vars

Matches(key, k) == IsSubstring(key, k) \/ IsSubstring(k, key)

\* C5: the curated lookup normalizes the name; a key equal to the normalized
\* name wins; otherwise the first key in table order that contains the name
\* or is contained in it wins ("cheese pizza" gives the pizza record, " Pizza "
\* too); with no such key the lookup finds nothing.
C5_CuratedMatching ==
  out.fn = "_lookup_local" =>
    LET key == _normalize(inp.food_name)
        DB  == LOCAL_NUTRITION_DB
        N   == 1..Len(DB)
    IN  /\ (\E i \in N : DB[i].key = key) =>
             \E i \in N : DB[i].key = key /\ out.value = DB[i].rec
        /\ ((\A i \in N : DB[i].key # key) /\ (\E i \in N : Matches(key, DB[i].key))) =>
             \E i \in N : /\ Matches(key, DB[i].key)
                          /\ \A j \in 1..(i - 1) : ~Matches(key, DB[j].key)
                          /\ out.value = DB[i].rec
        /\ (\A i \in N : ~Matches(key, DB[i].key)) => out.value = None
        /\ inp.food_name = <<"c", "h", "e", "e", "s", "e", " ", "p", "i", "z", "z", "a">>
             => out.value = DB[1].rec
        /\ inp.food_name = <<" ", "P", "i", "z", "z", "a", " ">> => out.value = DB[1].rec

C5_Witness ==
  /\ out.fn = "_lookup_local"
  /\ inp.food_name = <<"c", "h", "e", "e", "s", "e", " ", "p", "i", "z", "z", "a">>
  /\ out.value = LOCAL_NUTRITION_DB[1].rec

\* C4: when the curated table matches the name, the resolve returns that
\* curated record and issues no request to the collaborator; a request is
\* issued only when the curated lookup found nothing.
C4_CuratedFirst ==
  out.fn = "get_nutrition_info" =>
    /\ _lookup_local(inp.food_name) # None =>
         /\ out.result.value = _lookup_local(inp.food_name)
         /\ out.result.requests = 0
    /\ out.result.requests > 0 => _lookup_local(inp.food_name) = None

C4_Witness ==
  /\ out.fn = "get_nutrition_info"
  /\ inp.o.kind = "product"
  /\ inp.food_name = <<"c", "h", "e", "e", "s", "e", " ", "p", "i", "z", "z", "a">>
  /\ out.result.value = LOCAL_NUTRITION_DB[1].rec
  /\ out.result.requests = 0

\* C6: for a name the table does not match, a transport failure, a timeout,
\* an HTTP error status, an unparsable response or an empty product list
\* makes the resolve return None without raising, after one request at most.
FailedLookups ==
  {"connection_error", "timeout", "http_error", "bad_json", "bad_value", "no_products"}

C6_FailuresGiveNotFound ==
  (/\ out.fn = "get_nutrition_info"
   /\ _lookup_local(inp.food_name) = None
   /\ inp.o.kind \in FailedLookups) =>
    /\ out.result.value = None
    /\ ~out.result.raised
    /\ out.result.requests <= 1

C6_Witness ==
  /\ out.fn = "get_nutrition_info"
  /\ inp.food_name = sushi
  /\ inp.o.kind = "bad_json"
  /\ out.result = [value |-> None, raised |-> FALSE, requests |-> 1]

\* ------------------------------------------------------------------------
\* the plate aggregation on its own: items, portion and the collaborator's
\* answer drawn from sets
\* ------------------------------------------------------------------------
MaxItems == 3
AggNames == {idli, dosa, rice, sushi, butter_chicken}
AggAnswers == {ConnectionError, Product(14350, 615, 2125, 45, Absent)}

\* the slider: min_value=0.25, max_value=2.0, step=0.25, in quarters
Portions == 1..8

\* every request of the run gets the answer o
ConstNet(o) == [i \in 1..(MaxItems + 1) |-> o]

InitAgg ==
  /\ log_entries = <<>>
  /\ today = 0
  /\ inp \in [selected_items : Selections(AggNames, 1, MaxItems),
              portion : Portions,
              o : AggAnswers]
  /\ out = Pending

Aggregate ==
  /\ out = Pending
  /\ out' = [fn |-> "combined_nutrition",
             c  |-> combined_nutrition(inp.selected_items, inp.portion, ConstNet(inp.o))]
  /\ UNCHANGED <<log_entries, today, inp>>

NextAgg == Aggregate

SpecAgg == InitAgg /\ [][NextAgg]_vars

Perms(n) == {p \in [1..n -> 1..n] : \A i, j \in 1..n : p[i] = p[j] => i = j}

Resolved(item, o) == get_nutrition_info(item, o).value # None

\* the float sum of one field over the resolved records of s, taken in the
\* order of s; the integer sum of the calories
RECURSIVE SumField(_, _, _)
SumField(s, f, o) ==
  IF s = <<>> THEN BigZero
  ELSE LET head == SumField(SubSeq(s, 1, Len(s) - 1), f, o)
           r    == get_nutrition_info(s[Len(s)], o).value
       IN  IF r = None THEN head ELSE FAdd(head, Tenths(r[f]))

RECURSIVE SumCalories(_, _)
SumCalories(s, o) ==
  IF s = <<>> THEN 0
  ELSE LET r == get_nutrition_info(s[Len(s)], o).value
       IN  SumCalories(SubSeq(s, 1, Len(s) - 1), o) + (IF r = None THEN 0 ELSE r.calories)

\* C1: with at least one resolvable item, each combined field is the portion
\* times the sum of that field over the individually resolved records, in
\* whatever order the items are taken (the result is the same for every
\* permutation of the items).
C1_OrderIndependentSum ==
  (/\ out.fn = "combined_nutrition"
   /\ \E i \in 1..Len(inp.selected_items) : Resolved(inp.selected_items[i], inp.o)) =>
    \A p \in Perms(Len(inp.selected_items)) :
      LET s == [i \in 1..Len(inp.selected_items) |-> inp.selected_items[p[i]]]
      IN  /\ out.c.calories = inp.portion * SumCalories(s, inp.o)
          /\ \A f \in {"protein", "carbs", "fat", "fiber"} :
               out.c[f] = FMulQuarter(SumField(s, f, inp.o), inp.portion)

\* C2: when the resolver finds nothing for any selected item, the combined
\* calories and all macro totals are 0 and the missing items are exactly the
\* input items.
C2_AllUnresolved ==
  (/\ out.fn = "combined_nutrition"
   /\ \A i \in 1..Len(inp.selected_items) : ~Resolved(inp.selected_items[i], inp.o)) =>
    /\ out.c.calories = 0
    /\ \A f \in {"protein", "carbs", "fat", "fiber"} : out.c[f] = BigZero
    /\ out.c.missing_items = inp.selected_items

C2_Witness ==
  /\ out.fn = "combined_nutrition"
  /\ inp.selected_items = <<sushi, butter_chicken>>
  /\ inp.o = ConnectionError
  /\ out.c.missing_items = <<sushi, butter_chicken>>
  /\ out.c.calories = 0

\* ------------------------------------------------------------------------
\* the weekly page on its own: the log and the day drawn from sets
\* ------------------------------------------------------------------------
\* logs of at most MaxWeekLog entries, as "Add this meal to today's log" makes
\* them (main item first in the selection, portion 1.0, the network down),
\* dated in the order they were added; the page is opened on day 8 or 15
MaxWeekLog == 3
WeekDates == {1, 7, 8}
WeekToday == {8, 15}
WeekSelections ==
  { <<pizza, salad>>, <<pizza>>, <<salad, burger>>,
    <<idli, dosa, rice>>, <<roti, sushi, biryani>> }

WeekEntries ==
  { entry(d, s[1], s, 4, "maintain",
          Plate(s[1], s, 4, ConstNet(ConnectionError)).used) :
      d \in WeekDates, s \in WeekSelections }

InitWeekly ==
  /\ log_entries \in
       {q \in UNION {[1..n -> WeekEntries] : n \in 0..MaxWeekLog} :
          \A i \in 1..(Len(q) - 1) : q[i]["date"] <= q[i + 1]["date"]}
  /\ today \in WeekToday
  /\ inp = [page |-> "Weekly Summary", goal |-> "maintain"]
  /\ out = Pending

NextWeekly == WeeklySummary

SpecWeekly == InitWeekly /\ [][NextWeekly]_vars

\* the positions of the log inside the 7 days that end today, the calories
\* logged on a day
InWindow == {i \in 1..Len(log_entries) :
               today - 6 <= log_entries[i]["date"] /\ log_entries[i]["date"] <= today}

DayCalories(d) ==
  SumInts(SelectSeq(log_entries, LAMBDA e : e["date"] = d), "calories")

SevenPairs(w) ==
  /\ w.info = "chart"
  /\ Len(w.dates_list) = 7
  /\ Len(w.cals_list) = 7
  /\ \A i \in 1..7 : /\ w.dates_list[i] = today - 7 + i
                     /\ w.cals_list[i] = DayCalories(today - 7 + i)

WeeklyShown == out.fn = "run" /\ out.page = "Weekly Summary"

\* C3, as stated: the weekly page gives exactly 7 (day, calories) pairs for
\* the days today-6 .. today in ascending order in every state of the store,
\* an empty store and a store with no entry in the window included; a day's
\* calories is the sum over the entries of that day, 0 for a day without.
C3_AlwaysSevenPairs == WeeklyShown => SevenPairs(out.weekly)

\* C3, amended: the 7 pairs are given exactly when at least one entry lies
\* inside the window; with an empty store, or a store without an entry in the
\* window, the page gives a notice and no series.
C3_SevenPairsWhenRecent ==
  WeeklyShown =>
    /\ InWindow # {} => SevenPairs(out.weekly)
    /\ log_entries = <<>> => out.weekly = [info |-> "no_logs"]
    /\ (log_entries # <<>> /\ InWindow = {}) => out.weekly = [info |-> "no_recent"]

C3_Witness ==
  /\ WeeklyShown
  /\ today = 8
  /\ Len(log_entries) = 2
  /\ log_entries[1]["date"] = 1
  /\ log_entries[2]["date"] = 8
  /\ out.weekly.info = "chart"
  /\ out.weekly.cals_list[6] = 0
  /\ out.weekly.cals_list[7] = log_entries[2].calories
  /\ out.weekly.cals_list[7] > 0

\* the food names of the entries in the window, the number of times a name
\* occurs in their foods lists, the place where it occurs first
WindowFoods ==
  {log_entries[i].foods[j] : <<i, j>> \in
     {ij \in InWindow \X (1..MaxItems) : ij[2] <= Len(log_entries[ij[1]].foods)}}

Occurrences(name) ==
  Cardinality({ij \in InWindow \X (1..MaxItems) :
                 /\ ij[2] <= Len(log_entries[ij[1]].foods)
                 /\ log_entries[ij[1]].foods[ij[2]] = name})

FirstOccurrence(name) ==
  CHOOSE k \in 1..((MaxWeekLog + 1) * (MaxItems + 1)) :
    /\ \E i \in InWindow, j \in 1..MaxItems :
         /\ j <= Len(log_entries[i].foods)
         /\ log_entries[i].foods[j] = name
         /\ k = i * (MaxItems + 1) + j
    /\ \A i \in InWindow, j \in 1..MaxItems :
         (j <= Len(log_entries[i].foods) /\ log_entries[i].foods[j] = name)
           => k <= i * (MaxItems + 1) + j

\* a comes before b: more occurrences, or as many and seen first
Before(a, b) ==
  \/ Occurrences(a) > Occurrences(b)
  \/ Occurrences(a) = Occurrences(b) /\ FirstOccurrence(a) < FirstOccurrence(b)

\* C10: the top foods count every occurrence of every name in the foods
\* lists of the entries, are ordered by count descending with equal counts
\* in order of first occurrence, and are cut to the first 5; foods
\* [pizza, salad] and [pizza] give (pizza, 2), (salad, 1).
C10_TopFoods ==
  (WeeklyShown /\ InWindow # {}) =>
    LET top == out.weekly.top_foods
        N   == 1..Len(top)
    IN  /\ Len(top) = (IF Cardinality(WindowFoods) < 5 THEN Cardinality(WindowFoods) ELSE 5)
        /\ \A k \in N : /\ top[k].name \in WindowFoods
                        /\ top[k].count = Occurrences(top[k].name)
        /\ \A k, m \in N : k < m => Before(top[k].name, top[m].name)
        /\ \A k \in N : \A n \in WindowFoods :
             (\A m \in N : top[m].name # n) => Before(top[k].name, n)
        /\ (/\ InWindow = 1..Len(log_entries)
            /\ [i \in 1..Len(log_entries) |-> log_entries[i].foods]
                 = << <<pizza, salad>>, <<pizza>> >>)
             => top = << [name |-> pizza, count |-> 2], [name |-> salad, count |-> 1] >>

C10_Witness ==
  /\ WeeklyShown
  /\ today = 8
  /\ [i \in 1..Len(log_entries) |-> log_entries[i].foods]
       = << <<pizza, salad>>, <<salad, burger>>, <<idli, dosa, rice>> >>
  /\ \A i \in 1..Len(log_entries) : log_entries[i]["date"] >= 7
  /\ out.weekly.top_foods =
       << [name |-> salad, count |-> 2], [name |-> pizza, count |-> 1],
          [name |-> burger, count |-> 1], [name |-> idli, count |-> 1],
          [name |-> dosa, count |-> 1] >>

\* ------------------------------------------------------------------------
\* the session
\* ------------------------------------------------------------------------
\* C7: the store is append-only: across every step of the session (a scan
\* with or without an add, a change of goal, a change of page, the log page
\* with its export, the coach, midnight) the store before the step is a
\* prefix of the store after it, so no entry is removed, moved or changed,
\* and the goal of a logged entry stays what it was when it was logged.
C7_AppendOnly ==
  [][/\ Len(log_entries') >= Len(log_entries)
     /\ SubSeq(log_entries', 1, Len(log_entries)) = log_entries]_vars

C7_Witness ==
  /\ Len(log_entries) = 2
  /\ log_entries[1].goal = "maintain"
  /\ log_entries[2].goal = "lose"
  /\ log_entries[1].foods # log_entries[2].foods
  /\ out.fn = "run"
  /\ out.page = "Smart Coach"
  /\ inp.goal = "maintain"

\* t tenths is a one-decimal value nearest to the float x
NearestTenth(x, t) ==
  LET T    == BigMulSmall(x, 10)
      half == BigCmp(<<T[1], T[2], T[3], 0>>, BigPow2(59))
  IN  \/ T[4] = t /\ half <= 0
      \/ T[4] = t - 1 /\ half >= 0

\* C8: when a plate is logged, the entry that the entries-for-today query
\* gives back holds the calories as the integer nearest to the scaled total
\* and each macro as the one-decimal value nearest to its scaled total; a
\* later read of today's entries returns the stored entries as they are.
C8_LoggingRoundTrip ==
  /\ (out.fn = "run" /\ out.added) =>
       LET today_entries == SelectSeq(log_entries, LAMBDA x : x["date"] = today)
           e == today_entries[Len(today_entries)]
       IN  /\ today_entries # <<>>
           /\ e = log_entries[Len(log_entries)]
           /\ 4 * e.calories - out.used.calories \in (0 - 2)..2
           /\ \A f \in {"protein", "carbs", "fat", "fiber"} : NearestTenth(out.used[f], e[f])
  /\ (out.fn = "run" /\ out.page = "Today's Log & History") =>
       out.today_entries = SelectSeq(log_entries, LAMBDA x : x["date"] = today)

C8_Witness ==
  /\ out.fn = "run"
  /\ out.page = "Today's Log & History"
  /\ Len(out.today_entries) = 1
  /\ out.today_entries[1].foods = <<burger>>
  /\ out.today_entries[1].calories = 74
  /\ out.today_entries[1].protein = 42
  /\ out.today_entries[1].fat = 32

MaxCoachLog == 2
CoachDates == {0, 1}
CoachMeals ==
  { <<1399, 499, 3, 1>>, <<1, 1, 1, 0>>, <<1900, 1200, 4, 1>>, <<1800, 500, 0, 0>>,
    <<2300, 1201, 1, 2>>, <<2199, 600, 2, 2>>, <<2800, 0, 3, 1>>, <<1000, 0, 0, 2>> }

CoachEntries ==
  {[date |-> d, foods |-> <<burger>>, calories |-> m[1], protein |-> m[2],
    carbs |-> m[3], fat |-> m[4], fiber |-> 0, portion |-> 4, goal |-> "maintain"] :
     d \in CoachDates, m \in CoachMeals}

InitCoach ==
  /\ log_entries \in UNION {[1..n -> CoachEntries] : n \in 0..MaxCoachLog}
  /\ \A i \in 1..(Len(log_entries) - 1) : log_entries[i].date <= log_entries[i + 1].date
  /\ today = 1
  /\ inp = [page |-> "Smart Coach", goal |-> "maintain"]
  /\ out = Pending

CoachAnyGoal == \E goal \in Goals : CoachRun(goal)

NextCoach == CoachAnyGoal

SpecCoach == InitCoach /\ [][NextCoach]_vars

\* the coach has answered for the goal in inp
Coached == out.fn = "run" /\ out.page = "Smart Coach"

TodayEntries == SelectSeq(log_entries, LAMBDA e : e.date = today)
TotalCalories == SumInts(TodayEntries, "calories")
TotalProtein == SumTenths(TodayEntries, "protein")
TotalCarbs == SumTenths(TodayEntries, "carbs")
TotalFat == SumTenths(TodayEntries, "fat")

\* how often a paragraph of the set ps occurs in the message m, after its two
\* summary lines
CountIn(m, ps) == Cardinality({i \in 3..Len(m) : \E p \in ps : m[i] = p})

\* C11: with no entry logged for today the coach returns, for every goal,
\* exactly the one "no meals logged yet" message and nothing else, however
\* many entries the store holds for other days.
C11_NoMealsToday ==
  (Coached /\ TodayEntries = <<>>) =>
    /\ out.message = <<NoMealsMessage>>
    /\ \A g \in Goals : generate_coach_message(log_entries, today, g) = <<NoMealsMessage>>

\* the store holds two entries of yesterday, none of today, and the coach has
\* answered for the goal "gain"
C11_Witness ==
  /\ Coached
  /\ inp.goal = "gain"
  /\ Len(log_entries) = 2
  /\ TodayEntries = <<>>
  /\ out.message = <<NoMealsMessage>>

\* the calorie paragraphs as the claim names them: position in the band, then goal
CalorieVariant ==
  [below |->
     [lose     |-> "You're **below** the typical calorie range for weight loss.",
      gain     |-> "You're well **below** the calorie range needed for weight gain.",
      maintain |-> "You're **under** a typical maintenance range."],
   above |->
     [lose     |-> "You're **above** the usual calorie range for weight loss today.",
      gain     |-> "You're on the **higher** side of calories, which can support weight gain, but ensure they come from quality foods, not just junk.",
      maintain |-> "You're **above** a typical maintenance range."],
   within |->
     [lose     |-> "Nice! Your total calories are within a reasonable range for weight loss today.",
      gain     |-> "Good! Your total calories are in a decent range for weight gain.",
      maintain |-> "You're roughly in a **maintenance** range today."]]

CalorieParagraphs == {CalorieVariant[b][g] : b \in {"below", "above", "within"}, g \in Goals}

BandMin == [lose |-> 1400, gain |-> 2200, maintain |-> 1800]
BandMax == [lose |-> 1900, gain |-> 2800, maintain |-> 2300]

\* C12: for a non-empty set of today's entries exactly one calorie paragraph
\* is emitted; it is the "below" variant iff the total is under the band
\* minimum of the goal, the "above" variant iff it is over the band maximum,
\* the "within" variant otherwise (both ends within), worded for the goal;
\* the nine paragraphs are pairwise distinct.
C12_CalorieVerdict ==
  (Coached /\ TodayEntries # <<>>) =>
    LET g == inp.goal
        b == IF TotalCalories < BandMin[g] THEN "below"
             ELSE IF TotalCalories > BandMax[g] THEN "above" ELSE "within"
    IN  /\ CountIn(out.message, CalorieParagraphs) = 1
        /\ out.message[3] = CalorieVariant[b][g]
        /\ Cardinality(CalorieParagraphs) = 9

\* goal "lose" and a total of 1000 kcal today: the below-weight-loss variant
C12_Witness ==
  /\ Coached
  /\ inp.goal = "lose"
  /\ TodayEntries # <<>>
  /\ TotalCalories = 1000
  /\ out.message[3] = "You're **below** the typical calorie range for weight loss."

ProteinLow == "Protein intake looks on the **lower side**."
ProteinHigh == "Protein intake is **quite high**, which is okay if you train regularly, but keep hydration up and balance with veggies."
ProteinOkay == "Protein intake looks **okay** for a typical day."

\* C13: for a non-empty set of today's entries exactly one protein paragraph
\* is emitted, right after the calorie paragraph: the low-protein warning iff
\* the protein total is under 50, the high-protein note iff it is over 120,
\* the "okay" note iff it is from 50 to 120; the goal plays no part.
C13_ProteinVerdict ==
  (Coached /\ TodayEntries # <<>>) =>
    /\ CountIn(out.message, {ProteinLow, ProteinHigh, ProteinOkay}) = 1
    /\ out.message[3] \in CalorieParagraphs
    /\ out.message[4] =
         (IF FLess(TotalProtein, FloatOf(50)) THEN ProteinLow
          ELSE IF FLess(FloatOf(120), TotalProtein) THEN ProteinHigh
          ELSE ProteinOkay)
    /\ \A g \in Goals : generate_coach_message(log_entries, today, g)[4] = out.message[4]

\* two entries of today with 49.9 g and 0.1 g of protein: the total is 50 and
\* the note is the "okay" one
C13_Witness ==
  /\ Coached
  /\ Len(TodayEntries) = 2
  /\ TodayEntries[1].protein = 499
  /\ TodayEntries[2].protein = 1
  /\ TotalProtein = FloatOf(50)
  /\ out.message[4] = ProteinOkay

CarbHeavy == "Your day leaned more towards **carb-heavy** meals."
FatHeavy == "Your day is a bit **fat-heavy**."

MaxConcepts == 2
ConceptNames == {burger, sushi, <<>>}
ConceptValues == {19, 20, 29, 30, 49, 50, 90}
Concepts == {[name |-> n, value |-> v] : n \in ConceptNames, v \in ConceptValues}

SevenConcepts ==
  { <<[name |-> burger, value |-> 90], [name |-> sushi, value |-> 80],
      [name |-> pizza, value |-> 70], [name |-> rice, value |-> 60],
      [name |-> roti, value |-> 50], [name |-> salad, value |-> 40],
      [name |-> dosa, value |-> 30]>>,
    <<[name |-> dosa, value |-> 25], [name |-> salad, value |-> 20],
      [name |-> roti, value |-> 60], [name |-> rice, value |-> 60],
      [name |-> <<>>, value |-> 24], [name |-> sushi, value |-> 22],
      [name |-> burger, value |-> 23]>> }

RecognizerAnswers ==
  SevenConcepts \cup UNION {[1..n -> Concepts] : n \in 0..MaxConcepts}

ValidatorAnswers ==
  { <<>>,
    <<[name |-> burger, value |-> 39]>>, <<[name |-> burger, value |-> 40]>>,
    <<[name |-> burger, value |-> 49]>>, <<[name |-> burger, value |-> 50]>>,
    <<[name |-> sushi, value |-> 20], [name |-> burger, value |-> 90]>> }

InitClassify ==
  /\ log_entries = <<>>
  /\ today = 0
  /\ \E cv \in ValidatorAnswers, cr \in RecognizerAnswers, vfails, rfails \in BOOLEAN :
       inp = [cv |-> IF vfails THEN None ELSE Listed(cv),
              cr |-> IF rfails THEN None ELSE Listed(cr)]
  /\ out = Pending

\* the click on "Analyze Food", as far as the plate selection
AnalyzeFood ==
  /\ out' = analyze_food(inp.cv, inp.cr)
  /\ UNCHANGED <<log_entries, today, inp>>

NextClassify == AnalyzeFood

SpecClassify == InitClassify /\ [][NextClassify]_vars

Analyzed == out.fn = "analyze"

\* the concepts the recognizer was given, and their ranks: 1 for the highest
\* confidence, equal confidences in the order returned
Given == IF inp.cr = None THEN <<>> ELSE inp.cr.list
RankOf(i) ==
  1 + Cardinality({j \in 1..Len(Given) :
                     \/ Given[j].value > Given[i].value
                     \/ (Given[j].value = Given[i].value /\ j < i)})
AtRank(r) == Given[CHOOSE i \in 1..Len(Given) : RankOf(i) = r]

\* the names at the ranks lo..hi that qualify as alternatives, in rank order
RECURSIVE AlternativesFrom(_, _)
AlternativesFrom(lo, hi) ==
  IF lo > hi \/ lo > Len(Given) THEN <<>>
  ELSE (IF AtRank(lo).value >= 20 /\ AtRank(lo).name # <<>>
        THEN <<AtRank(lo).name>> ELSE <<>>) \o AlternativesFrom(lo + 1, hi)

\* C15, as stated: the top label is "unknown" when its confidence is below
\* 0.3 and is presented as the recognized food when its confidence is 0.3 or
\* more; the alternatives are the labels among the next 5 whose confidence is
\* at least 0.2.
C15_UnknownBelow30 ==
  (Analyzed /\ Given # <<>>) =>
    /\ (AtRank(1).value < 30) => out.stage = "unrecognized"
    /\ (AtRank(1).value >= 30) =>
         /\ out.stage = "recognized"
         /\ out.detection.name = AtRank(1).name
         /\ out.detection.alternatives = AlternativesFrom(2, 6)

\* C15, amended: the top label is "unknown", without alternatives, when its
\* confidence is below 0.5 (and when the classifier gave no concepts); it is
\* presented as the recognized food when its confidence is 0.5 or more, with
\* the alternatives being the non-empty labels among the next 5 whose
\* confidence is at least 0.2, in order of confidence.
C15_UnknownBelow50 ==
  Analyzed =>
    /\ Given = <<>> =>
         /\ out.stage = "unrecognized"
         /\ out.detection = [name |-> unknown, confidence |-> 0, alternatives |-> <<>>]
    /\ (Given # <<>> /\ AtRank(1).value < 50) =>
         /\ out.stage = "unrecognized"
         /\ out.detection =
              [name |-> unknown, confidence |-> AtRank(1).value, alternatives |-> <<>>]
    /\ (Given # <<>> /\ AtRank(1).value >= 50) =>
         /\ out.stage = "recognized"
         /\ out.detection.name = AtRank(1).name
         /\ out.detection.confidence = AtRank(1).value
         /\ out.detection.alternatives = AlternativesFrom(2, 6)

\* seven concepts returned out of order, two of them at the top with 0.6: the
\* first of the two is the food, the four named ones of the next five are the
\* alternatives, the seventh (0.2) is not looked at
C15_Witness ==
  /\ Analyzed
  /\ Len(Given) = 7
  /\ Given[1].name = dosa
  /\ out.stage = "recognized"
  /\ out.detection.name = roti
  /\ out.detection.alternatives = <<rice, dosa, burger, sushi>>

\* C16, as stated: the image is "unclear" when the validator's confidence is
\* below 0.4 and a food image when it is 0.4 or more; recognition is
\* attempted for every validator outcome.
C16_UnclearBelow40 ==
  Analyzed =>
    /\ (out.notice = "unclear") <=> (out.validation_confidence < 40)
    /\ out.detection = recognize_food_advanced(inp.cr)

\* C16, amended: the image is "unclear" when the validator says it is not
\* food or its confidence is below 0.4, which for this validator (is_food is
\* confidence >= 0.5) is every confidence below 0.5, and a food image
\* otherwise; for every validator outcome, (false, 0.0) included, recognition
\* is attempted in the same run.
C16_UnclearBelow50 ==
  Analyzed =>
    /\ (out.notice = "unclear") <=> (~out.is_food \/ out.validation_confidence < 40)
    /\ (out.notice = "unclear") <=> (out.validation_confidence < 50)
    /\ (out.notice = "food") <=> (out.validation_confidence >= 50)
    /\ out.detection = recognize_food_advanced(inp.cr)
    /\ out.stage \in {"recognized", "unrecognized"}

\* the food check had no answer, (false, 0.0), and the same run recognized
\* a burger
C16_Witness ==
  /\ Analyzed
  /\ inp.cv = None
  /\ ~out.is_food /\ out.validation_confidence = 0
  /\ out.notice = "unclear"
  /\ out.stage = "recognized"
  /\ out.detection.name = burger

\* ------------------------------------------------------------------------
\* recommendations.py
\* ------------------------------------------------------------------------
\* A recommendation is the tuple of its first sentence and, where the text
\* quotes them ({calories}), the calories.  Nutrition fields are as in LOCAL_NUTRITION_DB:
\* calories an int, the macros in tenths.
butter == <<"b", "u", "t", "t", "e", "r">>
fried == <<"f", "r", "i", "e", "d">>

\* goal-specific guidance whose thresholds are not strict
GoalRecsNotStrict(n, goal) ==
  IF goal = "lose"
  THEN (IF n.calories >= 600
        THEN << <<"This looks like a high-calorie meal (~{calories} kcal).", n.calories>> >>
        ELSE << <<"At around {calories} kcal, this can fit a weight loss plan if your daily calories remain in deficit.",
                  n.calories>> >>)
       \o (IF n.fat >= 200 THEN << <<"Fat is on the higher side.">> >> ELSE <<>>)
       \o (IF n.fiber <= 30 THEN << <<"Fiber is low.">> >> ELSE <<>>)
  ELSE IF goal = "gain"
  THEN (IF n.calories <= 400
        THEN << <<"This meal has only ~{calories} kcal.", n.calories>> >>
        ELSE << <<"With ~{calories} kcal, this supports a calorie surplus if combined with your other meals.",
                  n.calories>> >>)
       \o (IF n.protein <= 150 THEN << <<"Protein is on the lower side.">> >> ELSE <<>>)
  ELSE << <<"With ~{calories} kcal, this can fit into a balanced diet if your overall daily intake is around your maintenance level.",
            n.calories>> >>
       \o (IF n.fat >= 250 THEN << <<"Fat is slightly high.">> >> ELSE <<>>)
       \o (IF n.carbs >= 500 THEN << <<"Carbs are high.">> >> ELSE <<>>)

\* lines 62-100: goal-specific guidance
goal_recs(n, goal) ==
  IF goal = "lose"
  THEN (IF n.calories > 600
        THEN << <<"This looks like a high-calorie meal (~{calories} kcal).", n.calories>> >>
        ELSE << <<"At around {calories} kcal, this can fit a weight loss plan if your daily calories remain in deficit.",
                  n.calories>> >>)
       \o (IF n.fat > 200 THEN << <<"Fat is on the higher side.">> >> ELSE <<>>)
       \o (IF n.fiber < 30 THEN << <<"Fiber is low.">> >> ELSE <<>>)
  ELSE IF goal = "gain"
  THEN (IF n.calories < 400
        THEN << <<"This meal has only ~{calories} kcal.", n.calories>> >>
        ELSE << <<"With ~{calories} kcal, this supports a calorie surplus if combined with your other meals.",
                  n.calories>> >>)
       \o (IF n.protein < 150 THEN << <<"Protein is on the lower side.">> >> ELSE <<>>)
  ELSE << <<"With ~{calories} kcal, this can fit into a balanced diet if your overall daily intake is around your maintenance level.",
            n.calories>> >>
       \o (IF n.fat > 250 THEN << <<"Fat is slightly high.">> >> ELSE <<>>)
       \o (IF n.carbs > 500 THEN << <<"Carbs are high.">> >> ELSE <<>>)

\* lines 102-121: general tips and time-of-day hints
general_recs(food_key, n) ==
  (IF n.protein < 100 THEN << <<"Add a protein-rich side.">> >> ELSE <<>>)
  \o (IF n.fiber < 20 THEN << <<"Very low fiber.">> >> ELSE <<>>)
  \o (IF IsSubstring(biryani, food_key) \/ IsSubstring(butter, food_key)
         \/ IsSubstring(fried, food_key)
      THEN << <<"Try to avoid very heavy, oily foods late at night.">> >> ELSE <<>>)
  \o (IF IsSubstring(salad, food_key) \/ IsSubstring(idli, food_key)
         \/ IsSubstring(dosa, food_key)
      THEN << <<"This can be a good choice for breakfast or dinner.">> >> ELSE <<>>)

\* recommendations that leave out the fiber tip when the goal-specific part
\* already warned about fiber
RecsWithoutRepeatedFiber(food_name, nutrition, goal) ==
  goal_recs(nutrition, goal)
  \o SelectSeq(general_recs(Lower(food_name), nutrition),
               LAMBDA r : ~(goal = "lose" /\ r = <<"Very low fiber.">>))

\* get_meal_recommendations
get_meal_recommendations(food_name, nutrition, goal) ==
  goal_recs(nutrition, goal) \o general_recs(Lower(food_name), nutrition)

HEALTHIER_ALTERNATIVES_MAP == <<
    [key |-> pizza,
     alts |-> <<"Thin-crust veggie pizza with less cheese.",
                "Whole-wheat base pizza with extra veggies.",
                "Grilled paneer wrap instead of heavy cheese pizza.">>],
    [key |-> burger,
     alts |-> <<"Grilled paneer or chicken burger without mayo.",
                "Whole-wheat bun with extra salad and less cheese.",
                "Veggie burger with baked patty instead of fried.">>],
    [key |-> biryani,
     alts |-> <<"Veg pulao with less oil and more vegetables.",
                "Grilled chicken + rice instead of oily biryani.",
                "Brown rice biryani with less ghee.">>],
    [key |-> paneer_butter_masala,
     alts |-> <<"Paneer tikka (grilled) instead of heavy gravy.",
                "Paneer curry with less cream and oil.",
                "Dal + sabzi + roti instead of rich gravy.">>],
    [key |-> idli,
     alts |-> <<"Plain idli with sambar and less chutney.",
                "Rava idli with less oil.",
                "Steamed dhokla as another light option.">>],
    [key |-> dosa,
     alts |-> <<"Plain dosa with less oil instead of masala dosa.",
                "Ragi dosa for more fiber.",
                "Utthapam loaded with veggies.">>],
    [key |-> salad,
     alts |-> <<"Add protein like boiled egg / paneer / chana.",
                "Use olive oil + lemon instead of creamy dressing.",
                "Mix fruits + veggies for micronutrients.">>],
    [key |-> rice,
     alts |-> <<"Switch to brown rice sometimes for more fiber.",
                "Mix rice with dal and veggies for better balance.",
                "Control portion size and add salad on the side.">>],
    [key |-> roti,
     alts |-> <<"Use multi-grain atta instead of maida.",
                "Use ghee in small quantity if needed.",
                "Pair 2 rotis with sabzi + dal instead of many rotis alone.">>] >>

GenericAlternatives ==
  <<"Reduce portion size slightly and add more salad or vegetables.",
    "Avoid sugary drinks with this meal; choose water, buttermilk, or lemon water.",
    "Replace deep-fried sides with grilled, steamed, or roasted options.">>

\* get_healthier_alternatives
get_healthier_alternatives(food_name) ==
  LET key   == Lower(Strip(food_name))
      M     == HEALTHIER_ALTERNATIVES_MAP
      exact == {i \in 1..Len(M) : M[i].key = key}
      fuzzy == {i \in 1..Len(M) : IsSubstring(key, M[i].key) \/ IsSubstring(M[i].key, key)}
  IN  IF exact # {} THEN M[CHOOSE i \in exact : TRUE].alts
      ELSE IF fuzzy # {} THEN M[CHOOSE i \in fuzzy : \A j \in fuzzy : i <= j].alts
      ELSE GenericAlternatives

\* ------------------------------------------------------------------------
\* the recommendations on their own: names and nutrition drawn from sets
\* ------------------------------------------------------------------------
RecNames ==
  { biryani, butter_chicken, salad, idli, dosa, sushi, burger, paneer_butter_masala,
    <<"F", "r", "i", "e", "d", " ", "R", "i", "c", "e">>,
    <<"f", "r", "i", "e", "d", " ", "i", "d", "l", "i">>,
    <<"d", "o", "s", "a", " ", "w", "i", "t", "h", " ">> \o paneer_butter_masala,
    <<"l">>, <<" ", "P", "i", "z", "z", "a", " ">>, <<>> }

RecNutrition ==
  [calories : {399, 400, 600, 601}, protein : {99, 100, 149, 150},
   carbs : {500, 501}, fat : {200, 201, 250, 251}, fiber : {19, 20, 29, 30}]

InitRecommend ==
  /\ log_entries = <<>>
  /\ today = 0
  /\ inp \in [food_name : RecNames, nutrition : RecNutrition]
  /\ out = Pending

\* line 454
Recommend ==
  \E goal \in Goals :
    /\ out' = [fn |-> "get_meal_recommendations", goal |-> goal,
               recs |-> get_meal_recommendations(inp.food_name, inp.nutrition, goal)]
    /\ UNCHANGED <<log_entries, today, inp>>

\* line 463
Alternatives ==
  /\ out' = [fn |-> "get_healthier_alternatives",
             value |-> get_healthier_alternatives(inp.food_name)]
  /\ UNCHANGED <<log_entries, today, inp>>

NextRecommend == Recommend \/ Alternatives

SpecRecommend == InitRecommend /\ [][NextRecommend]_vars

Recommended == out.fn = "get_meal_recommendations"

GeneralTexts ==
  { "Add a protein-rich side.", "Very low fiber.",
    "Try to avoid very heavy, oily foods late at night.",
    "This can be a good choice for breakfast or dinner." }

\* the goal-specific strings of a list of recommendations, and the others
GoalPart(recs) == SelectSeq(recs, LAMBDA r : \A t \in GeneralTexts : r[1] # t)
GeneralPart(recs) == SelectSeq(recs, LAMBDA r : \E t \in GeneralTexts : r[1] = t)

When(c, r) == IF c THEN <<r>> ELSE <<>>

\* C17, as stated: for lose the goal-specific strings are the high-calorie
\* note iff calories > 600, then a fat warning iff fat > 20; for gain the
\* low-calorie note iff calories < 400, then a protein warning iff protein <
\* 15; for maintain the maintenance note, then a fat warning iff fat > 25,
\* then a carb warning iff carbs > 50; there are no other goal-specific checks.
C17_GoalRulesAsStated ==
  Recommended =>
    LET n == inp.nutrition
    IN  GoalPart(out.recs) =
          (IF out.goal = "lose"
           THEN When(n.calories > 600, <<"This looks like a high-calorie meal (~{calories} kcal).", n.calories>>)
                \o When(n.fat > 200, <<"Fat is on the higher side.">>)
           ELSE IF out.goal = "gain"
           THEN When(n.calories < 400, <<"This meal has only ~{calories} kcal.", n.calories>>)
                \o When(n.protein < 150, <<"Protein is on the lower side.">>)
           ELSE << <<"With ~{calories} kcal, this can fit into a balanced diet if your overall daily intake is around your maintenance level.",
                     n.calories>> >>
                \o When(n.fat > 250, <<"Fat is slightly high.">>)
                \o When(n.carbs > 500, <<"Carbs are high.">>))

\* C17, amended: every goal starts with exactly one calorie note: for lose the
\* high-calorie note iff calories > 600 and the "can fit a weight loss plan"
\* note otherwise, then a fat warning iff fat > 20, then a fiber warning iff
\* fiber < 3; for gain the low-calorie note iff calories < 400 and the
\* "supports a calorie surplus" note otherwise, then a protein warning iff
\* protein < 15; for maintain the maintenance note, then a fat warning iff
\* fat > 25, then a carb warning iff carbs > 50.  All thresholds are strict
\* and the goal-specific strings come first.
C17_GoalRules ==
  Recommended =>
    LET n == inp.nutrition
        expected ==
          IF out.goal = "lose"
          THEN When(n.calories > 600, <<"This looks like a high-calorie meal (~{calories} kcal).", n.calories>>)
               \o When(n.calories <= 600,
                       <<"At around {calories} kcal, this can fit a weight loss plan if your daily calories remain in deficit.",
                         n.calories>>)
               \o When(n.fat > 200, <<"Fat is on the higher side.">>)
               \o When(n.fiber < 30, <<"Fiber is low.">>)
          ELSE IF out.goal = "gain"
          THEN When(n.calories < 400, <<"This meal has only ~{calories} kcal.", n.calories>>)
               \o When(n.calories >= 400,
                       <<"With ~{calories} kcal, this supports a calorie surplus if combined with your other meals.",
                         n.calories>>)
               \o When(n.protein < 150, <<"Protein is on the lower side.">>)
          ELSE << <<"With ~{calories} kcal, this can fit into a balanced diet if your overall daily intake is around your maintenance level.",
                    n.calories>> >>
               \o When(n.fat > 250, <<"Fat is slightly high.">>)
               \o When(n.carbs > 500, <<"Carbs are high.">>)
    IN  /\ GoalPart(out.recs) = expected
        /\ SubSeq(out.recs, 1, Len(expected)) = expected

\* goal lose, 600 kcal, fat 20 g, fiber 2.9 g: the "can fit" note and the
\* fiber warning, no fat warning
C17_Witness ==
  /\ Recommended
  /\ out.goal = "lose"
  /\ inp.nutrition.calories = 600 /\ inp.nutrition.fat = 200 /\ inp.nutrition.fiber = 29
  /\ GoalPart(out.recs) =
       << <<"At around {calories} kcal, this can fit a weight loss plan if your daily calories remain in deficit.", 600>>,
          <<"Fiber is low.">> >>

\* C18: for the same name and nutrition the strings after the goal-specific
\* ones are the same for lose, gain and maintain: in this order the
\* protein-rich-side suggestion iff protein < 10, the fiber suggestion iff
\* fiber < 2, the late-night caution iff the lower-cased name contains
\* "biryani", "butter" or "fried", the breakfast/dinner note iff it contains
\* "salad", "idli" or "dosa"; nothing is removed as a duplicate.
C18_GeneralRules ==
  Recommended =>
    LET n   == inp.nutrition
        key == Lower(inp.food_name)
        expected ==
          When(n.protein < 100, <<"Add a protein-rich side.">>)
          \o When(n.fiber < 20, <<"Very low fiber.">>)
          \o When(\E w \in {biryani, butter, fried} : IsSubstring(w, key),
                  <<"Try to avoid very heavy, oily foods late at night.">>)
          \o When(\E w \in {salad, idli, dosa} : IsSubstring(w, key),
                  <<"This can be a good choice for breakfast or dinner.">>)
    IN  /\ out.recs = GoalPart(out.recs) \o expected
        /\ \A g \in Goals :
             GeneralPart(get_meal_recommendations(inp.food_name, n, g)) = expected

\* "Fried Idli"-like name, goal lose, fiber 1.9 g and protein 9.9 g: the fiber
\* warning of the goal and all four general strings
C18_Witness ==
  /\ Recommended
  /\ out.goal = "lose"
  /\ inp.food_name = <<"f", "r", "i", "e", "d", " ", "i", "d", "l", "i">>
  /\ inp.nutrition.fiber = 19 /\ inp.nutrition.protein = 99
  /\ GeneralPart(out.recs) =
       << <<"Add a protein-rich side.">>, <<"Very low fiber.">>,
          <<"Try to avoid very heavy, oily foods late at night.">>,
          <<"This can be a good choice for breakfast or dinner.">> >>
  /\ \E i \in 1..Len(out.recs) : out.recs[i] = <<"Fiber is low.">>

\* the key of the curated nutrition table whose record the lookup returns
CuratedKey(food_name) ==
  LOCAL_NUTRITION_DB[CHOOSE i \in 1..Len(LOCAL_NUTRITION_DB) :
                       LOCAL_NUTRITION_DB[i].rec = _lookup_local(food_name)].key

StoredUnder(key) ==
  HEALTHIER_ALTERNATIVES_MAP[CHOOSE i \in 1..Len(HEALTHIER_ALTERNATIVES_MAP) :
                               HEALTHIER_ALTERNATIVES_MAP[i].key = key].alts

\* C19: for every food name, alternatives returns the list stored under the
\* table key that the curated nutrition lookup selects for that name, and the
\* 3 generic alternatives exactly when the curated lookup finds no match.
C19_SameKeyAsCurated ==
  out.fn = "get_healthier_alternatives" =>
    IF _lookup_local(inp.food_name) = None
    THEN out.value = GenericAlternatives
    ELSE out.value = StoredUnder(CuratedKey(inp.food_name))

\* ------------------------------------------------------------------------
\* the script under Streamlit's execution model
\* ------------------------------------------------------------------------
\* Every interaction with a widget runs the script again from the top.  A
\* widget keeps its value from run to run as long as every run creates it; a
\* widget that a run creates for the first time has its default value; and
\* st.button returns True only in the run that its own click started, and
\* only if that run reaches the call.  inp holds the page and the goal (the
\* sidebar widgets, created by every run); out is the screen the last run
\* left, which tells what can be clicked next.
DefaultPortion == 4

StreamlitPredictions ==
  { None,
    Listed(<<[name |-> burger, value |-> 90], [name |-> sushi, value |-> 45]>>),
    Listed(<<[name |-> sushi, value |-> 80], [name |-> burger, value |-> 35]>>),
    Listed(<<[name |-> burger, value |-> 60]>>),
    Listed(<<[name |-> rice, value |-> 30], [name |-> pizza, value |-> 70]>>),
    Listed(<<[name |-> rice, value |-> 55], [name |-> roti, value |-> 10]>>),
    Listed(<<[name |-> roti, value |-> 50], [name |-> rice, value |-> 50]>>),
    Listed(<<[name |-> idli, value |-> 45]>>) }

StreamlitFoods == {burger, sushi, pizza, rice, roti}

\* the plate of the default selection [food_name] at the default portion 1.0
StreamlitPlates ==
  {[food_name |-> n, plate |-> Plate(n, <<n>>, DefaultPortion, SessionNet)] :
     n \in StreamlitFoods}

StreamlitPlate(food_name) ==
  (CHOOSE r \in StreamlitPlates : r.food_name = food_name).plate

Pages == {"Scan Food", "Today's Log & History", "Weekly Summary", "Smart Coach"}

\* one run of the page "Scan Food" (lines 262-528): image says whether the
\* uploader holds a file, analyze and add are the clicks that started the run.
\* The multiselect, the slider and the add button are created at lines 351,
\* 359 and 501, inside the block of "if st.button(Analyze Food)", so a run
\* that reaches them is a run started by the analyze click: the multiselect
\* and the slider have their defaults there.
RerunScan(goal, image, analyze, add) ==
  /\ inp' = [page |-> "Scan Food", goal |-> goal]
  /\ UNCHANGED today
  /\ IF ~image
     THEN out' = Rendered("Scan Food", "no_image", "none") /\ UNCHANGED log_entries
     ELSE IF ~analyze
     THEN out' = Rendered("Scan Food", "idle", "none") /\ UNCHANGED log_entries
     ELSE \E cv \in StreamlitPredictions, cr \in StreamlitPredictions :
       LET v == validate_food_image(cv)
           detection == recognize_food_advanced(cr)
           validation == validation_notice(v)
       IN  IF ~recognized(detection)
           THEN /\ out' = Rendered("Scan Food", "unrecognized", validation)
                /\ UNCHANGED log_entries
           ELSE \E pl \in {StreamlitPlate(detection.name)} :
                  PlateStep(goal, detection, validation, <<detection.name>>,
                            DefaultPortion, add, pl)

PageRun(page, goal) ==
  IF page = "Today's Log & History" THEN TodaysLogRun(goal)
  ELSE IF page = "Weekly Summary" THEN WeeklyRun(goal)
  ELSE CoachRun(goal)

OnScan == inp.page = "Scan Food"
HasImage == OnScan /\ out.stage # "no_image"
PlateShown == OnScan /\ out.stage \in {"shown", "no_main_nutrition", "added"}
AddButtonShown == OnScan /\ out.stage \in {"shown", "added"}

\* the first run after the page is loaded
InitStreamlit ==
  /\ log_entries = <<>>
  /\ today = 0
  /\ inp = [page |-> "Scan Food", goal |-> "maintain"]
  /\ out = Rendered("Scan Food", "no_image", "none")

\* a file is put into the uploader, or a photo is taken
UploadImage == OnScan /\ RerunScan(inp.goal, TRUE, FALSE, FALSE)

\* the file is removed from the uploader
ClearImage == HasImage /\ RerunScan(inp.goal, FALSE, FALSE, FALSE)

\* a click on "Analyze Food"
ClickAnalyze == HasImage /\ RerunScan(inp.goal, TRUE, TRUE, FALSE)

\* the multiselect or the slider is changed
ChangePlate == PlateShown /\ RerunScan(inp.goal, TRUE, FALSE, FALSE)

\* a click on "Add this meal to today's log"
ClickAdd == AddButtonShown /\ RerunScan(inp.goal, TRUE, FALSE, TRUE)

\* another goal is chosen in the sidebar
ChangeGoal ==
  \E goal \in Goals \ {inp.goal} :
    IF OnScan THEN RerunScan(goal, HasImage, FALSE, FALSE)
    ELSE PageRun(inp.page, goal)

\* another page is chosen in the sidebar; the uploader of a newly opened scan
\* page is empty
OpenPage ==
  \E page \in Pages \ {inp.page} :
    IF page = "Scan Food" THEN RerunScan(inp.goal, FALSE, FALSE, FALSE)
    ELSE PageRun(page, inp.goal)

\* midnight passes; the screen stays as it is
Midnight ==
  /\ today < MaxDay
  /\ today' = today + 1
  /\ UNCHANGED <<log_entries, inp, out>>

NextStreamlit ==
  \/ UploadImage \/ ClearImage \/ ClickAnalyze \/ ChangePlate \/ ClickAdd
  \/ ChangeGoal \/ OpenPage \/ Midnight

SpecStreamlit == InitStreamlit /\ [][NextStreamlit]_vars

\* C20: after an analysis that recognized a food whose main-item nutrition
\* resolved, the click on "add this meal to today's log" appends exactly one
\* entry to the store: its length grows by one.
C20_AddTakesEffect ==
  [][ClickAdd => Len(log_entries') = Len(log_entries) + 1]_vars

\* C21: every entry of the store carries the nutrition of its own foods: its
\* calories are the rounded value of portion times the sum of the calories of
\* the resolved records of the names in its foods list, and likewise each
\* macro, also when the main item was deselected and no selected item
\* resolved.  (Under Spec every request to Open Food Facts fails.)
C21_NutritionOfOwnFoods ==
  \A i \in 1..Len(log_entries) :
    LET e == log_entries[i]
    IN  /\ e.calories = RoundQuarters(e.portion * SumCalories(e.foods, ConnectionError))
        /\ \A f \in {"protein", "carbs", "fat", "fiber"} :
             e[f] = Round1(FMulQuarter(SumField(e.foods, f, ConnectionError), e.portion))

\* ------------------------------------------------------------------------
\* the coach on two stores
\* ------------------------------------------------------------------------
\* two stores of at most MaxPairLog entries each, read on the same day with
\* the same goal.  The meals of today: three with the same calories and
\* protein (carbs 5.3 / fat 0.4, carbs 0 / fat 0.4, carbs 0 / fat 4.5), one
\* of them also in a second form that differs in foods, fiber, portion and
\* stored goal; one meal of yesterday.
MaxPairLog == 3

PairMeal(d, foods, carbs, fat, fiber, portion, goal) ==
  [date |-> d, foods |-> foods, calories |-> 100, protein |-> 10, carbs |-> carbs,
   fat |-> fat, fiber |-> fiber, portion |-> portion, goal |-> goal]

PairToday ==
  { PairMeal(1, <<rice>>, 53, 4, 0, 4, "maintain"),
    PairMeal(1, <<idli>>, 0, 4, 0, 4, "maintain"),
    PairMeal(1, <<roti, salad>>, 0, 4, 25, 2, "gain"),
    PairMeal(1, <<dosa>>, 0, 45, 0, 4, "maintain") }

PairYesterday == PairMeal(0, <<burger>>, 300, 130, 10, 4, "lose")

PairStores ==
  LET todays == UNION {[1..n -> PairToday] : n \in 0..MaxPairLog}
  IN  todays \cup {<<PairYesterday>> \o s : s \in {t \in todays : Len(t) < MaxPairLog}}

InitCoachPair ==
  /\ log_entries \in PairStores
  /\ today = 1
  /\ \E other \in PairStores : inp = [page |-> "Smart Coach", other |-> other]
  /\ out = Pending

\* the page "Smart Coach" opened on each of the two stores
CoachTwoStores ==
  \E goal \in Goals :
    /\ out' = [fn |-> "coach on two stores", goal |-> goal,
               message |-> generate_coach_message(log_entries, today, goal),
               other_message |-> generate_coach_message(inp.other, today, goal)]
    /\ UNCHANGED <<log_entries, today, inp>>

NextCoachPair == CoachTwoStores

SpecCoachPair == InitCoachPair /\ [][NextCoachPair]_vars

EntriesOn(store, d) == SelectSeq(store, LAMBDA e : e.date = d)

\* the sum of a field over a sequence of entries, in tenths for the macros
RECURSIVE SumOf(_, _)
SumOf(es, f) == IF es = <<>> THEN 0 ELSE es[1][f] + SumOf(SubSeq(es, 2, Len(es)), f)

SameTotals(a, b) ==
  /\ Len(a) = Len(b)
  /\ \A f \in {"calories", "protein", "carbs", "fat"} : SumOf(a, f) = SumOf(b, f)

\* C22: for two stores whose entries of today are equal in number and in the
\* sums of calories, protein, carbs and fat, and for the same goal, the coach
\* message is the same, whatever the foods, fiber, portion and stored goal of
\* the entries and whatever the entries of other days.
C22_FunctionOfTotals ==
  (/\ out.fn = "coach on two stores"
   /\ SameTotals(EntriesOn(log_entries, today), EntriesOn(inp.other, today))) =>
    out.message = out.other_message

\* C23: for a name that is empty or only whitespace (its normalized form is
\* the empty string) the curated lookup finds nothing, and the resolve gives
\* a record only when Open Food Facts supplies one: it gives None when the
\* request fails or returns no product.
C23_EmptyNameNotFound ==
  _normalize(inp.food_name) = <<>> =>
    /\ out.fn = "_lookup_local" => out.value = None
    /\ (out.fn = "get_nutrition_info" /\ inp.o.kind \in FailedLookups) =>
         out.result.value = None

\* ------------------------------------------------------------------------
\* live_scan_opencv.py: the webcam loop of main
\* ------------------------------------------------------------------------
\* inp   what the loop reads in an iteration: the clock (time.time(), in
\*       seconds), whether the camera gave a frame, the key pressed
\* out   the locals of main: last_prediction_time, current_label,
\*       current_conf, current_cals, the text put on the frame, and what the
\*       most recent prediction computed (when it started, is_food and conf,
\*       the recognition result)
prediction_interval == 2

MaxTime == 9

Times == 0..MaxTime

Notice(s) == [notice |-> s]
FoodLabel(name) == [name |-> name]
Kcal(n) == [kcal |-> n]
Percent(c) == [percent |-> c]

StartLabel == Notice("Point your plate to the camera...")
NotFoodLabel == Notice("Not clear / not recognized as food")
NoSpecificFoodLabel == Notice("Could not detect specific food")

NotCalled == [called |-> FALSE]

overlay(label, conf, cals) ==
  [current_label |-> label, current_conf |-> conf, current_cals |-> cals]

\* lines 38-42: the text put on the frame
overlay_text(current) ==
  [label |-> current.current_label,
   conf  |-> IF current.current_conf > 0 THEN Percent(current.current_conf) ELSE None,
   cals  |-> current.current_cals]

\* line 57
prediction_due(now, last_prediction_time) ==
  now - last_prediction_time > prediction_interval

\* lines 79-83
calories_of(n) == IF n # None THEN Kcal(n.calories) ELSE None

\* a prediction that leaves the overlay as it is when the frame is not food
PredictWithoutReset(current, validation, result, o) ==
  IF ~validation.is_food \/ validation.confidence < 50
  THEN current
  ELSE IF result.name = unknown \/ result.confidence < 50
  THEN overlay(NoSpecificFoodLabel, 0, None)
  ELSE overlay(FoodLabel(result.name), result.confidence,
               calories_of(get_nutrition_info(result.name, o).value))

\* lines 63-83: the overlay after a prediction; the recognition result is
\* read only when the validation passed
predict(current, validation, result, o) ==
  IF ~validation.is_food \/ validation.confidence < 50
  THEN overlay(NotFoodLabel, 0, None)
  ELSE IF result.name = unknown \/ result.confidence < 50
  THEN overlay(NoSpecificFoodLabel, 0, None)
  ELSE overlay(FoodLabel(result.name), result.confidence,
               calories_of(get_nutrition_info(result.name, o).value))

Locals(running, last_prediction_time, current, text, prediction) ==
  [fn |-> "main", running |-> running, last_prediction_time |-> last_prediction_time,
   current_label |-> current.current_label, current_conf |-> current.current_conf,
   current_cals |-> current.current_cals, text |-> text, prediction |-> prediction]

CurrentOverlay == overlay(out.current_label, out.current_conf, out.current_cals)

\* what Clarifai answers to one call: no answer, or a list of concepts
LiveAnswers ==
  { None,
    Listed(<<[name |-> burger, value |-> 90]>>),
    Listed(<<[name |-> burger, value |-> 50]>>),
    Listed(<<[name |-> burger, value |-> 49]>>),
    Listed(<<[name |-> sushi, value |-> 30], [name |-> burger, value |-> 90]>>),
    Listed(<<[name |-> sushi, value |-> 90]>>),
    Listed(<<[name |-> unknown, value |-> 90]>>) }

\* what Open Food Facts answers
LiveOutcomes == {ConnectionError, Product(14350, 615, 2125, 45, Absent)}

InitLiveScan ==
  /\ log_entries = <<>>
  /\ today = 0
  /\ inp \in [clock : {0, 1}]
  /\ out = Pending

\* lines 20-31: the webcam is opened and the locals are set
OpenCamera ==
  /\ out = Pending
  /\ \E opened \in BOOLEAN :
       out' = IF opened
              THEN Locals(TRUE, 0, overlay(StartLabel, 0, None), None, None)
              ELSE [fn |-> "main", running |-> FALSE]
  /\ UNCHANGED <<log_entries, today, inp>>

\* lines 56-83: the prediction of an iteration, when one is due
Predicted(now, first, second, o) ==
  LET validation == validate_food_image(first)
      passed     == validation.is_food /\ validation.confidence >= 50
      result     == IF passed THEN recognize_food_advanced(second) ELSE NotCalled
  IN  [last_prediction_time |-> now,
       current    |-> predict(CurrentOverlay, validation,
                              IF passed THEN result ELSE [name |-> unknown, confidence |-> 0], o),
       prediction |-> [started |-> now, validation |-> validation, result |-> result,
                       nutrition |-> IF passed /\ result.name # unknown
                                     THEN get_nutrition_info(result.name, o).value
                                     ELSE NotCalled]]

\* lines 33-86: one iteration of the loop
Frame ==
  /\ out.fn = "main" /\ out.running
  /\ \E ret \in BOOLEAN, now \in {t \in Times : t >= inp.clock},
        first \in LiveAnswers, second \in LiveAnswers, o \in LiveOutcomes,
        key \in {"q", "none"} :
       IF ~ret
       THEN /\ out' = [out EXCEPT !.running = FALSE]
            /\ inp' = [clock |-> inp.clock, ret |-> FALSE]
       ELSE /\ inp' = [clock |-> now, ret |-> TRUE, key |-> key]
            /\ IF prediction_due(now, out.last_prediction_time)
               THEN \E p \in {Predicted(now, first, second, o)} :
                      out' = Locals(key # "q", p.last_prediction_time, p.current,
                                    overlay_text(CurrentOverlay), p.prediction)
               ELSE out' = Locals(key # "q", out.last_prediction_time, CurrentOverlay,
                                  overlay_text(CurrentOverlay), out.prediction)
  /\ UNCHANGED <<log_entries, today>>

NextLiveScan == OpenCamera \/ Frame

SpecLiveScan == InitLiveScan /\ [][NextLiveScan]_vars

InLoop == out.fn = "main" /\ "prediction" \in DOMAIN out

ValidationPassed(p) == p.validation.is_food /\ p.validation.confidence >= 50
RecognitionPassed(p) == p.result # NotCalled /\ p.result.name # unknown /\ p.result.confidence >= 50

OverlayConsistent ==
  InLoop =>
    /\ out.current_cals # None =>
         /\ out.prediction # None
         /\ ValidationPassed(out.prediction)
         /\ RecognitionPassed(out.prediction)
         /\ out.current_label = FoodLabel(out.prediction.result.name)
         /\ out.prediction.nutrition # None
         /\ out.current_cals = Kcal(out.prediction.nutrition.calories)
    /\ (out.prediction # None
        /\ (~ValidationPassed(out.prediction) \/ ~RecognitionPassed(out.prediction))) =>
         /\ out.current_conf = 0
         /\ out.current_cals = None

StartsPrediction == InLoop /\ out'.prediction # out.prediction

\* C24: in the webcam loop calories are set only when the label is the food
\* name of the most recent prediction, whose validation and recognition
\* confidences were both at least 0.5, and they are the calories resolved
\* for that name; when the most recent prediction failed validation or
\* recognition, current_conf is 0 and current_cals is None; and a prediction
\* is started only when more than 2 seconds of the clock have passed since
\* the previous one started.
C24_OverlayConsistency ==
  /\ []OverlayConsistent
  /\ [][(StartsPrediction /\ out.prediction # None) =>
          /\ out'.prediction.started = inp'.clock
          /\ inp'.clock - out.prediction.started > 2]_vars

\* calories of a burger are on the frame, and the last iteration ran exactly
\* 2 seconds after that prediction started, without starting another one
C24_Witness ==
  /\ InLoop
  /\ out.current_label = FoodLabel(burger)
  /\ out.current_cals = Kcal(295)
  /\ out.text # None
  /\ out.text.cals = Kcal(295)
  /\ out.prediction.validation.confidence = 50
  /\ inp.clock = out.prediction.started + 2
====
